---- MODULE Spec2Model ----
(***************************************************************************)
(* xget: the download pipeline (existing-file check, cache fetch,          *)
(* retry-wrapped resumable transfer with checksum gate and atomic publish) *)
(* and the bounded-concurrency scheduler that runs one pipeline per file.  *)
(* LoadMultiple, which merges the configuration files of a run, is         *)
(* modelled beside it.                                                     *)
(*                                                                         *)
(* A file is a sequence of bytes; a path holds no file, a directory or a   *)
(* regular file.  The SHA-256 digest is modelled by an injective fold over *)
(* the whole byte sequence, so two files have the same digest exactly when *)
(* they have the same bytes.  Of the progress bars (an external library)   *)
(* the model keeps whether one was left incomplete, which is what the      *)
(* final progress.Wait() of Download depends on.                           *)
(***************************************************************************)
EXTENDS Integers, Sequences, FiniteSets, TLC

\* ------------------------------------------------------------- bounds
Size == 3          \* bytes of the object of a file task (pipeline runs)
MaxRetries == 2    \* largest configured settings.retries
MaxTasks == 2      \* file tasks of a scheduler run
MaxParallel == 2   \* largest settings.parallel of a scheduler run
MaxConfigs == 2    \* configuration files given to LoadMultiple

\* ------------------------------------------------------------- defaults
defaultParallel == 4
defaultRetries == 3
defaultRetryDelay == 5   \* seconds

\* ------------------------------------------------------------- values
Byte == {0, 1}
NoRange == 0 - 1   \* a request without Range header

Absent == [kind |-> "absent", data |-> <<>>]
Dir == [kind |-> "dir", data |-> <<>>]
File(d) == [kind |-> "file", data |-> d]
\* A regular file that os.Stat finds and os.Open cannot open.
Unreadable(d) == [kind |-> "unreadable", data |-> d]

Ones(k) == [i \in 1..k |-> 1]
Zeros(k) == [i \in 1..k |-> 0]
Prefix(s, k) == SubSeq(s, 1, k)
Suffix(s, k) == SubSeq(s, k + 1, Len(s))

RECURSIVE Digest(_)
Digest(s) == IF s = <<>> THEN 0
             ELSE Digest(Prefix(s, Len(s) - 1)) * (Cardinality(Byte) + 1)
                  + s[Len(s)] + 1

VARIABLES
  cfg,        \* settings, aliases and cache enablement of the run (read-only)
  file,       \* file[t]: the FileEntry of task t (its url and expected sha256)
  srcObj,     \* srcObj[t]: the bytes the source holds for task t
  srcMode,    \* srcMode[t]: how the source of task t treats a Range (read-only)
  barLeft,    \* a progress bar of the container was left incomplete
  waited,     \* progress.Wait() has returned: Download returns the results
  cacheObj,   \* cacheObj[d]: the cache entry under the digest d
  dest,       \* dest[t]: the destination path of task t
  part,       \* part[t]: the staging path, destination + ".partial"
  pc,         \* pc[t]: position of worker t
  attempt,    \* attempt[t]: loop counter of downloadWithRetry
  slept,      \* slept[t]: the durations worker t has slept between attempts
  offset,     \* offset[t]: resume offset of the current attempt
  body,       \* body[t]: bytes not yet read from the open response body
  lastErr,    \* lastErr[t]: lastErr of downloadWithRetry
  err,        \* err[t]: what downloadFile returned ("none" while running)
  srcReqs,    \* srcReqs[t]: requests sent to the source: how many, the last Range
  cacheReqs,  \* cacheReqs[t]: every request sent to the cache
  flaky,      \* flaky[t]: the environment of task t may fail (read-only)
  sem,        \* slots of the semaphore channel in use
  wg,         \* WaitGroup counter
  resultCh,   \* buffered result channel
  closed,     \* resultCh is closed
  results,    \* the results slice
  returned,   \* the collect loop of Download has ended
  cancelled,  \* ctx is cancelled
  atCancel,   \* Phase of every worker at the moment cancel() ran
  paths,      \* LoadMultiple: what each named file parses to, in order
  baseConfig, \* LoadMultiple: the configuration merged so far
  loadIdx,    \* LoadMultiple: how many of the paths are merged
  loadPc      \* LoadMultiple: position ("merge", "validate", "ok", "error")

vars == <<cfg, file, srcObj, cacheObj, dest, part, pc, attempt, offset, body,
          lastErr, err, srcReqs, cacheReqs, flaky, sem, wg, resultCh, closed,
          results, returned, cancelled, atCancel, slept, paths, baseConfig,
          loadIdx, loadPc, srcMode, barLeft, waited>>

Tasks == DOMAIN pc

\* The key of task t's cache entry: its expected digest.
CacheKey(t) == file[t].SHA256

loadVars == <<paths, baseConfig, loadIdx, loadPc>>
envVars == <<cfg, file, srcObj, srcMode, flaky, loadVars>>
schedVars == <<sem, wg, resultCh, closed, results, returned>>
cancelVars == <<cancelled, atCancel>>
progVars == <<barLeft, waited>>

\* ------------------------------------------------------------- configuration
\* A Config has the sections Aliases (a map, here a function from the names
\* it has to their Alias), Cache, Settings and Files.  Of the six string
\* fields of an Alias the model keeps two.
NoAliases == [n \in {} |-> 0]
NoCache == [Alias |-> "", Enabled |-> FALSE]
EmptyConfig ==
  [Aliases |-> NoAliases, Cache |-> NoCache,
   Settings |-> [Parallel |-> 0, Retries |-> 0, RetryDelay |-> 0, Timeout |-> 0],
   Files |-> <<>>]

\* mergeConfigs_fieldwise: a same-name alias is merged field by field, an
\* empty field of the later alias keeping the earlier value.
mergeConfigs_fieldwise(base, override) ==
  [Aliases |->
     [n \in DOMAIN base.Aliases \cup DOMAIN override.Aliases |->
        IF n \notin DOMAIN override.Aliases THEN base.Aliases[n]
        ELSE IF n \notin DOMAIN base.Aliases THEN override.Aliases[n]
        ELSE [f \in DOMAIN override.Aliases[n] |->
                IF override.Aliases[n][f] # "" THEN override.Aliases[n][f]
                ELSE base.Aliases[n][f]]],
   Cache |->
     [Alias |-> IF override.Cache.Alias # "" THEN override.Cache.Alias
                ELSE base.Cache.Alias,
      Enabled |-> override.Cache.Enabled \/ base.Cache.Enabled],
   Settings |->
     [Parallel |-> IF override.Settings.Parallel > 0
                   THEN override.Settings.Parallel ELSE base.Settings.Parallel,
      Retries |-> IF override.Settings.Retries > 0
                  THEN override.Settings.Retries ELSE base.Settings.Retries,
      RetryDelay |-> IF override.Settings.RetryDelay > 0
                     THEN override.Settings.RetryDelay
                     ELSE base.Settings.RetryDelay,
      Timeout |-> base.Settings.Timeout],
   Files |-> base.Files \o override.Files]

\* mergeConfigs_overwrite: the settings of the later configuration replace
\* the earlier ones, set or not.
mergeConfigs_overwrite(base, override) ==
  [Aliases |->
     [n \in DOMAIN base.Aliases \cup DOMAIN override.Aliases |->
        IF n \in DOMAIN override.Aliases THEN override.Aliases[n]
        ELSE base.Aliases[n]],
   Cache |->
     [Alias |-> IF override.Cache.Alias # "" THEN override.Cache.Alias
                ELSE base.Cache.Alias,
      Enabled |-> override.Cache.Enabled \/ base.Cache.Enabled],
   Settings |-> override.Settings,
   Files |-> base.Files \o override.Files]

\* mergeConfigs_dedup: a file entry the base already lists is not appended.
mergeConfigs_dedup(base, override) ==
  [Aliases |->
     [n \in DOMAIN base.Aliases \cup DOMAIN override.Aliases |->
        IF n \in DOMAIN override.Aliases THEN override.Aliases[n]
        ELSE base.Aliases[n]],
   Cache |->
     [Alias |-> IF override.Cache.Alias # "" THEN override.Cache.Alias
                ELSE base.Cache.Alias,
      Enabled |-> override.Cache.Enabled \/ base.Cache.Enabled],
   Settings |->
     [Parallel |-> IF override.Settings.Parallel > 0
                   THEN override.Settings.Parallel ELSE base.Settings.Parallel,
      Retries |-> IF override.Settings.Retries > 0
                  THEN override.Settings.Retries ELSE base.Settings.Retries,
      RetryDelay |-> IF override.Settings.RetryDelay > 0
                     THEN override.Settings.RetryDelay
                     ELSE base.Settings.RetryDelay,
      Timeout |-> base.Settings.Timeout],
   Files |-> base.Files
             \o SelectSeq(override.Files,
                          LAMBDA e : \A i \in DOMAIN base.Files : base.Files[i] # e)]

\* mergeConfigs: every alias of override is stored under its name, the
\* cache alias is taken when not empty, the cache can be enabled but not
\* disabled, parallel, retries and retry_delay are taken when positive
\* (timeout is not merged), the files are appended.
mergeConfigs(base, override) ==
  [Aliases |->
     [n \in DOMAIN base.Aliases \cup DOMAIN override.Aliases |->
        IF n \in DOMAIN override.Aliases THEN override.Aliases[n]
        ELSE base.Aliases[n]],
   Cache |->
     [Alias |-> IF override.Cache.Alias # "" THEN override.Cache.Alias
                ELSE base.Cache.Alias,
      Enabled |-> override.Cache.Enabled \/ base.Cache.Enabled],
   Settings |->
     [Parallel |-> IF override.Settings.Parallel > 0
                   THEN override.Settings.Parallel ELSE base.Settings.Parallel,
      Retries |-> IF override.Settings.Retries > 0
                  THEN override.Settings.Retries ELSE base.Settings.Retries,
      RetryDelay |-> IF override.Settings.RetryDelay > 0
                     THEN override.Settings.RetryDelay
                     ELSE base.Settings.RetryDelay,
      Timeout |-> base.Settings.Timeout],
   Files |-> base.Files \o override.Files]

\* applyDefaults_zeroOnly: only an absent (zero) setting gets its default.
applyDefaults_zeroOnly(c) ==
  [c EXCEPT !.Settings.Parallel = IF @ = 0 THEN defaultParallel ELSE @,
            !.Settings.Retries = IF @ = 0 THEN defaultRetries ELSE @,
            !.Settings.RetryDelay = IF @ = 0 THEN defaultRetryDelay ELSE @]

\* applyDefaults: a setting that is not positive gets its default.
applyDefaults(c) ==
  [c EXCEPT !.Settings.Parallel = IF @ <= 0 THEN defaultParallel ELSE @,
            !.Settings.Retries = IF @ <= 0 THEN defaultRetries ELSE @,
            !.Settings.RetryDelay = IF @ <= 0 THEN defaultRetryDelay ELSE @]

\* validate: an enabled cache names an alias the configuration has, and
\* every file entry has a url, a dest and a sha256.
validate(c) ==
  IF c.Cache.Enabled /\ c.Cache.Alias = ""
  THEN "cache enabled but no alias specified"
  ELSE IF c.Cache.Enabled /\ c.Cache.Alias \notin DOMAIN c.Aliases
  THEN "cache alias not found in aliases"
  ELSE IF \E i \in DOMAIN c.Files :
            c.Files[i].URL = "" \/ c.Files[i].Dest = "" \/ c.Files[i].SHA256 = ""
  THEN "field is required"
  ELSE "nil"

\* ------------------------------------------------------------- pure code
\* VerifyFileSHA256: os.Open fails on a missing path and on a file it may
\* not read, reading fails on a directory; otherwise the digest of the whole
\* file is compared.
VerifyFileSHA256(f, expectedHash) ==
  [valid |-> f.kind = "file" /\ Digest(f.data) = expectedHash,
   err |-> f.kind # "file"]

\* A variant of checkExistingFile that never reports a valid file.
checkExistingFile_neverExists(f, sha) ==
  [exists |-> FALSE, err |-> f.kind = "dir"]

\* A variant of checkExistingFile that takes a failed check for "no file".
checkExistingFile_errIsMissing(f, sha) ==
  [exists |-> f.kind = "file" /\ Digest(f.data) = sha, err |-> FALSE]

\* checkExistingFile: (exists, err) for the destination path.
checkExistingFile(f, sha) ==
  IF f.kind = "absent" THEN [exists |-> FALSE, err |-> FALSE]
  ELSE IF f.kind = "dir" THEN [exists |-> FALSE, err |-> TRUE]
  ELSE [exists |-> VerifyFileSHA256(f, sha).valid,
        err |-> VerifyFileSHA256(f, sha).err]

\* A variant of openPartialFile that always starts the staging file afresh.
openPartialFile_truncate(f) == [file |-> File(<<>>), offset |-> 0]

\* openPartialFile: a staging file of size > 0 is opened for append and its
\* size is the resume offset; otherwise os.Create truncates or creates it.
openPartialFile(f) ==
  IF f.kind = "file" /\ Len(f.data) > 0
  THEN [file |-> f, offset |-> Len(f.data)]
  ELSE [file |-> File(<<>>), offset |-> 0]

\* A variant of RangeHeader that sends "bytes=<offset>-" for offset 0 too.
RangeHeader_always(off) == off

\* The Range header of a source request: "bytes=<offset>-" only if offset > 0.
RangeHeader(off) == IF off > 0 THEN off ELSE NoRange

\* What a server answers to a GET with the given Range for the object obj:
\* "honest" follows range semantics (200 whole object, 206 the rest from the
\* offset, 416 for an offset at or past the end), "ignoreRange" serves the whole
\* object with 200 whatever the Range, "failing" answers 500 with an error
\* page.
Respond(obj, range, mode) ==
  IF mode = "failing" THEN [status |-> 500, body |-> <<0>>]
  ELSE IF mode = "ignoreRange" \/ range = NoRange
  THEN [status |-> 200, body |-> obj]
  ELSE IF range < Len(obj) THEN [status |-> 206, body |-> Suffix(obj, range)]
  ELSE [status |-> 416, body |-> <<>>]

\* The locators of a file entry: an http(s) url, or s3://<alias>/<key>.
Https == [scheme |-> "https", alias |-> ""]
S3(a) == [scheme |-> "s3", alias |-> a]

\* NewSource: the error of building the source of a url ("nil": none).
\* newS3Source fails when the alias is not in the configuration.
NewSource(url, aliases) ==
  IF url.scheme = "s3"
  THEN IF url.alias \in aliases THEN "nil" ELSE "alias not found"
  ELSE IF url.scheme \in {"http", "https"} THEN "nil"
  ELSE "unsupported URL scheme"

\* HTTPSource.Download that takes the body of any response.
StatusAccepted_any(status) == status \in {200, 206, 416, 500}

\* HTTPSource.Download accepts only 200 and 206.
StatusAccepted(status) == status = 200 \/ status = 206

\* finalizeDownload that verifies the last bytes of the staging file, as
\* many as the object has, and renames the whole file.
finalizeDownload_lastBytes(p, d, sha) ==
  IF p.kind # "file" THEN [part |-> p, dest |-> d, err |-> "verifying checksum"]
  ELSE IF \/ Len(p.data) < Size
          \/ Digest(Suffix(p.data, Len(p.data) - Size)) # sha
  THEN [part |-> Absent, dest |-> d, err |-> "checksum mismatch"]
  ELSE [part |-> Absent, dest |-> p, err |-> "nil"]

\* finalizeDownload that renames the staging file without verifying it.
finalizeDownload_noVerify(p, d, sha) ==
  IF p.kind # "file" THEN [part |-> p, dest |-> d, err |-> "verifying checksum"]
  ELSE [part |-> Absent, dest |-> p, err |-> "nil"]

\* A variant of finalizeDownload that keeps the staging file on a mismatch.
finalizeDownload_keepPartial(p, d, sha) ==
  LET v == VerifyFileSHA256(p, sha) IN
  IF v.err THEN [part |-> p, dest |-> d, err |-> "verifying checksum"]
  ELSE IF ~v.valid THEN [part |-> p, dest |-> d, err |-> "checksum mismatch"]
  ELSE [part |-> Absent, dest |-> p, err |-> "nil"]

\* finalizeDownload: verify the whole staging file, remove it on a mismatch,
\* rename it onto the destination on a match.
finalizeDownload(p, d, sha) ==
  LET v == VerifyFileSHA256(p, sha) IN
  IF v.err THEN [part |-> p, dest |-> d, err |-> "verifying checksum"]
  ELSE IF ~v.valid THEN [part |-> Absent, dest |-> d, err |-> "checksum mismatch"]
  ELSE [part |-> Absent, dest |-> p, err |-> "nil"]

\* A variant of tryGetFromCache that takes a failed cache fetch for a hit.
tryGetFromCache_errIsHit(cached, e) == cached \/ e # "nil"

\* A variant of tryGetFromCache that never reports a hit.
tryGetFromCache_alwaysMiss(cached, e) == FALSE

\* tryGetFromCache: what Cache.Get returned (cached, err) decides whether
\* downloadFile is done; an error is printed and counts as a miss.
tryGetFromCache(cached, e) == IF e # "nil" THEN FALSE ELSE cached

\* ------------------------------------------------------------- helpers
Goto(t, l) == pc' = [pc EXCEPT ![t] = l]
\* downloadFile returns e; the locals of the functions that returned are
\* gone (the exhaustion error wraps lastErr and keeps it).
Ret(t, e) ==
  /\ pc' = [pc EXCEPT ![t] = "ret"]
  /\ err' = [err EXCEPT ![t] = e]
  /\ offset' = [offset EXCEPT ![t] = 0]
  /\ lastErr' = [lastErr EXCEPT ![t] = IF e = "all attempts" THEN @ ELSE "nil"]
\* tryGetFromCache returned false: downloadWithRetry starts its first attempt.
ToSource(t) == /\ pc' = [pc EXCEPT ![t] = "open"]
               /\ attempt' = [attempt EXCEPT ![t] = 1]
\* downloadFile that returns the error of Cache.Get instead of printing it.
CacheGot_propagate(t, cached, e) ==
  IF e # "nil" THEN Ret(t, e) /\ UNCHANGED attempt
  ELSE IF cached THEN Ret(t, "nil") /\ UNCHANGED attempt
  ELSE ToSource(t) /\ UNCHANGED <<err, offset, lastErr>>
\* Cache.Get returned (cached, e): downloadFile returns nil on a hit and
\* goes on to the source otherwise.
CacheGot(t, cached, e) ==
  IF tryGetFromCache(cached, e)
  THEN Ret(t, "nil") /\ UNCHANGED attempt
  ELSE ToSource(t) /\ UNCHANGED <<err, offset, lastErr>>
\* An attempt failed with e (its reader, if any, is closed): lastErr = err,
\* then the ctx.Err() check.
AttemptFailed(t, e) == /\ pc' = [pc EXCEPT ![t] = "checkctx"]
                       /\ lastErr' = [lastErr EXCEPT ![t] = e]
                       /\ body' = [body EXCEPT ![t] = <<>>]

\* ------------------------------------------------------------- variants
\* A worker that starts its pipeline without waiting for a semaphore slot.
Acquire_noGate(t) ==
  /\ pc[t] = "idle"
  /\ sem' = sem + 1
  /\ Goto(t, "check")
  /\ UNCHANGED <<envVars, progVars, slept, cancelVars, cacheObj, dest, part, attempt, offset,
                 body, lastErr, err, srcReqs, cacheReqs, wg, resultCh,
                 closed, results, returned>>

\* A transfer that removes the staging file when its copy fails.
StreamChunk_removeOnError(t) ==
  /\ pc[t] = "stream"
  /\ \/ /\ body[t] # <<>>
        /\ ~cancelled
        /\ part' = [part EXCEPT ![t] = File(Append(@.data, Head(body[t])))]
        /\ body' = [body EXCEPT ![t] = Tail(@)]
        /\ UNCHANGED <<pc, lastErr, barLeft>>
     \/ /\ body[t] = <<>>
        /\ Goto(t, "finalize")
        /\ UNCHANGED <<part, body, lastErr, barLeft>>
     \/ /\ cancelled \/ flaky[t]
        /\ AttemptFailed(t, "writing file")
        /\ barLeft' = TRUE
        /\ part' = [part EXCEPT ![t] = Absent]
  /\ UNCHANGED <<envVars, waited, slept, cancelVars, schedVars, cacheObj, dest, attempt,
                 offset, err, srcReqs, cacheReqs>>

\* A retry loop that does not look at the context after a failed attempt.
CheckCtx_ignoreCancel(t) ==
  /\ pc[t] = "checkctx"
  /\ IF attempt[t] < cfg.Retries
     THEN /\ attempt' = [attempt EXCEPT ![t] = @ + 1]
          /\ Goto(t, "sleep")
          /\ UNCHANGED <<err, offset, lastErr>>
     ELSE Ret(t, "all attempts") /\ UNCHANGED attempt
  /\ UNCHANGED <<envVars, progVars, slept, cancelVars, schedVars, cacheObj, dest, part, body,
                 srcReqs, cacheReqs>>

\* A collector that stores the results in the order of their arrival.
Collect_byArrival ==
  /\ resultCh # <<>>
  /\ LET i == CHOOSE j \in DOMAIN results :
                 results[j] = "unset" /\ \A k \in 1..(j - 1) : results[k] # "unset"
     IN results' = [results EXCEPT ![i] = Head(resultCh).Error]
  /\ resultCh' = Tail(resultCh)
  /\ UNCHANGED <<envVars, progVars, slept, cancelVars, cacheObj, dest, part, pc, attempt,
                 offset, body, lastErr, err, srcReqs, cacheReqs, sem,
                 wg, closed, returned>>

\* A retry loop that looks at its budget before it looks at the context.
CheckCtx_budgetFirst(t) ==
  /\ pc[t] = "checkctx"
  /\ IF attempt[t] >= cfg.Retries THEN Ret(t, "all attempts") /\ UNCHANGED attempt
     ELSE IF cancelled THEN Ret(t, "context canceled") /\ UNCHANGED attempt
     ELSE /\ attempt' = [attempt EXCEPT ![t] = @ + 1]
          /\ Goto(t, "sleep")
          /\ UNCHANGED <<err, offset, lastErr>>
  /\ UNCHANGED <<envVars, progVars, slept, cancelVars, schedVars, cacheObj, dest, part, body,
                 srcReqs, cacheReqs>>

\* A retry loop that allows one attempt more than settings.retries.
CheckCtx_oneMore(t) ==
  /\ pc[t] = "checkctx"
  /\ IF cancelled THEN Ret(t, "context canceled") /\ UNCHANGED attempt
     ELSE IF attempt[t] <= cfg.Retries
     THEN /\ attempt' = [attempt EXCEPT ![t] = @ + 1]
          /\ Goto(t, "sleep")
          /\ UNCHANGED <<err, offset, lastErr>>
     ELSE Ret(t, "all attempts") /\ UNCHANGED attempt
  /\ UNCHANGED <<envVars, progVars, slept, cancelVars, schedVars, cacheObj, dest, part, body,
                 srcReqs, cacheReqs>>

\* A transfer that empties the staging file when its copy fails.
StreamChunk_truncateOnError(t) ==
  /\ pc[t] = "stream"
  /\ \/ /\ body[t] # <<>>
        /\ ~cancelled
        /\ part' = [part EXCEPT ![t] = File(Append(@.data, Head(body[t])))]
        /\ body' = [body EXCEPT ![t] = Tail(@)]
        /\ UNCHANGED <<pc, lastErr, barLeft>>
     \/ /\ body[t] = <<>>
        /\ Goto(t, "finalize")
        /\ UNCHANGED <<part, body, lastErr, barLeft>>
     \/ /\ cancelled \/ flaky[t]
        /\ AttemptFailed(t, "writing file")
        /\ barLeft' = TRUE
        /\ part' = [part EXCEPT ![t] = File(<<>>)]
  /\ UNCHANGED <<envVars, waited, slept, cancelVars, schedVars, cacheObj, dest, attempt,
                 offset, err, srcReqs, cacheReqs>>

\* A retry loop that gives up at once after a checksum mismatch.
CheckCtx_mismatchFatal(t) ==
  /\ pc[t] = "checkctx"
  /\ IF cancelled THEN Ret(t, "context canceled") /\ UNCHANGED attempt
     ELSE IF attempt[t] < cfg.Retries /\ lastErr[t] # "checksum mismatch"
     THEN /\ attempt' = [attempt EXCEPT ![t] = @ + 1]
          /\ Goto(t, "sleep")
          /\ UNCHANGED <<err, offset, lastErr>>
     ELSE Ret(t, "all attempts") /\ UNCHANGED attempt
  /\ UNCHANGED <<envVars, progVars, slept, cancelVars, schedVars, cacheObj, dest, part, body,
                 srcReqs, cacheReqs>>

\* A cache store whose failure becomes the error of the task.
PutUpload_propagate(t) ==
  /\ pc[t] = "putUpload"
  /\ \/ /\ cancelled
        /\ Ret(t, "could not cache")
        /\ UNCHANGED <<cacheReqs, cacheObj>>
     \/ /\ ~cancelled
        /\ cacheReqs' = [cacheReqs EXCEPT ![t] = Append(@, "put")]
        /\ \/ flaky[t] /\ Ret(t, "could not cache") /\ UNCHANGED cacheObj
           \/ cacheObj' = [cacheObj EXCEPT ![CacheKey(t)] = dest[t]] /\ Ret(t, "nil")
  /\ UNCHANGED <<envVars, progVars, slept, cancelVars, schedVars, dest, part, attempt, body,
                 srcReqs>>

\* Cache.Get that reports a hit once the copy is done, without verifying.
CacheVerify_trust(t) ==
  /\ pc[t] = "cacheCopy"
  /\ body[t] = <<>>
  /\ CacheGot(t, TRUE, "nil")
  /\ UNCHANGED dest
  /\ UNCHANGED <<envVars, progVars, slept, cancelVars, schedVars, cacheObj, part, body,
                 srcReqs, cacheReqs>>

\* Cache.Put that uploads without asking whether the entry exists.
PutExists_noCheck(t) ==
  /\ pc[t] = "putExists"
  /\ Goto(t, "putUpload")
  /\ UNCHANGED <<err, offset, lastErr, cacheReqs>>
  /\ UNCHANGED <<envVars, progVars, slept, cancelVars, schedVars, cacheObj, dest, part, attempt,
                 body, srcReqs>>

\* downloadWithRetry whose exhaustion error cancels the context of the run,
\* as a fail-fast group would.
CheckCtx_failFast(t) ==
  /\ pc[t] = "checkctx"
  /\ IF cancelled
     THEN Ret(t, "context canceled") /\ UNCHANGED <<attempt, cancelled>>
     ELSE IF attempt[t] < cfg.Retries
     THEN /\ attempt' = [attempt EXCEPT ![t] = @ + 1]
          /\ Goto(t, "sleep")
          /\ UNCHANGED <<err, offset, lastErr, cancelled>>
     ELSE Ret(t, "all attempts") /\ cancelled' = TRUE /\ UNCHANGED attempt
  /\ UNCHANGED <<envVars, progVars, slept, atCancel, schedVars, cacheObj, dest, part, body,
                 srcReqs, cacheReqs>>

\* finalizeDownload that verifies only the bytes this attempt received: it
\* publishes when the tail after the resume offset is the tail of the
\* expected object.
FinalizeDownload_tailOnly(t) ==
  /\ pc[t] = "finalize"
  /\ IF /\ part[t].kind = "file"
        /\ Len(part[t].data) = Size
        /\ Suffix(part[t].data, offset[t]) = Suffix(Ones(Size), offset[t])
     THEN /\ part' = [part EXCEPT ![t] = Absent]
          /\ dest' = [dest EXCEPT ![t] = part[t]]
          /\ IF cfg.CacheEnabled
             THEN Goto(t, "putExists") /\ UNCHANGED <<lastErr, err, body, offset>>
             ELSE Ret(t, "nil") /\ UNCHANGED body
     ELSE /\ part' = [part EXCEPT ![t] = Absent]
          /\ AttemptFailed(t, "checksum mismatch")
          /\ UNCHANGED <<dest, err, offset>>
  /\ UNCHANGED <<envVars, progVars, slept, cancelVars, schedVars, cacheObj, attempt, srcReqs,
                 cacheReqs>>

\* A retry that runs the whole pipeline again, from the existing-file check.
Sleep_recheck(t) ==
  /\ pc[t] = "sleep"
  /\ slept' = [slept EXCEPT ![t] = Append(@, cfg.RetryDelay)]
  /\ Goto(t, "check")
  /\ UNCHANGED <<envVars, progVars, cancelVars, schedVars, cacheObj, dest, part, attempt,
                 offset, body, lastErr, err, srcReqs, cacheReqs>>

\* ------------------------------------------------------------- pipeline
\* Worker goroutine: semaphore <- struct{}{} (blocks while Parallel slots are
\* in use), then downloadFile starts.
Acquire(t) ==
  /\ pc[t] = "idle"
  /\ sem < cfg.Parallel
  /\ sem' = sem + 1
  /\ Goto(t, "check")
  /\ UNCHANGED <<envVars, progVars, slept, cancelVars, cacheObj, dest, part, attempt, offset,
                 body, lastErr, err, srcReqs, cacheReqs, wg, resultCh,
                 closed, results, returned>>

\* downloadFile up to tryGetFromCache: the existing-file check; with no
\* cache configured tryGetFromCache returns false at once.
CheckExisting(t) ==
  /\ pc[t] = "check"
  /\ LET c == checkExistingFile(dest[t], file[t].SHA256) IN
       IF c.err THEN Ret(t, "checking existing file") /\ UNCHANGED attempt
       ELSE IF c.exists THEN Ret(t, "nil") /\ UNCHANGED attempt
       ELSE IF cfg.CacheEnabled
       THEN Goto(t, "cacheExists") /\ UNCHANGED <<attempt, err, offset, lastErr>>
       ELSE ToSource(t) /\ UNCHANGED <<err, offset, lastErr>>
  /\ UNCHANGED <<envVars, progVars, slept, cancelVars, schedVars, cacheObj, dest, part, body,
                 srcReqs, cacheReqs>>

\* Cache.Get: source.Exists. A request on a cancelled context fails without
\* being sent. Not found or an error: tryGetFromCache returns false.
CacheExists(t) ==
  /\ pc[t] = "cacheExists"
  /\ \/ /\ cancelled
        /\ CacheGot(t, FALSE, "checking cache")
        /\ UNCHANGED cacheReqs
     \/ /\ ~cancelled
        /\ cacheReqs' = [cacheReqs EXCEPT ![t] = Append(@, "head")]
        /\ \/ flaky[t] /\ CacheGot(t, FALSE, "checking cache")
           \/ IF cacheObj[CacheKey(t)].kind = "file"
              THEN Goto(t, "cacheOpen") /\ UNCHANGED <<attempt, err, offset, lastErr>>
              ELSE CacheGot(t, FALSE, "nil")
  /\ UNCHANGED <<envVars, progVars, slept, cancelVars, schedVars, cacheObj, dest, part, body,
                 srcReqs>>

\* Cache.Get: source.Download(ctx, 0), then os.Create(destPath), which
\* truncates or creates the destination itself.
CacheOpen(t) ==
  /\ pc[t] = "cacheOpen"
  /\ \/ /\ cancelled
        /\ CacheGot(t, FALSE, "downloading from cache")
        /\ UNCHANGED <<cacheReqs, dest, body>>
     \/ /\ ~cancelled
        /\ cacheReqs' = [cacheReqs EXCEPT ![t] = Append(@, "get")]
        /\ \/ /\ flaky[t]
              /\ CacheGot(t, FALSE, "downloading from cache")
              /\ UNCHANGED <<dest, body>>
           \/ /\ dest' = [dest EXCEPT ![t] = File(<<>>)]
              /\ body' = [body EXCEPT ![t] = cacheObj[CacheKey(t)].data]
              /\ Goto(t, "cacheCopy")
              /\ UNCHANGED <<attempt, err, offset, lastErr>>
  /\ UNCHANGED <<envVars, progVars, slept, cancelVars, schedVars, cacheObj, part, srcReqs>>

\* Cache.Get: io.Copy(file, reader), one chunk. A failed read or write (a
\* cancelled context fails the read) removes the destination.
CacheCopy(t) ==
  /\ pc[t] = "cacheCopy"
  /\ \/ /\ body[t] # <<>>
        /\ ~cancelled
        /\ dest' = [dest EXCEPT ![t] = File(Append(@.data, Head(body[t])))]
        /\ body' = [body EXCEPT ![t] = Tail(@)]
        /\ UNCHANGED <<pc, attempt, err, offset, lastErr>>
     \/ /\ cancelled \/ flaky[t]
        /\ dest' = [dest EXCEPT ![t] = Absent]
        /\ body' = [body EXCEPT ![t] = <<>>]
        /\ CacheGot(t, FALSE, "writing file")
  /\ UNCHANGED <<envVars, progVars, slept, cancelVars, schedVars, cacheObj, part, srcReqs,
                 cacheReqs>>

\* Cache.Get after the copy reached EOF: VerifyFileSHA256(destPath); a
\* mismatch removes the destination, a match is a cache hit and downloadFile
\* returns nil.
CacheVerify(t) ==
  /\ pc[t] = "cacheCopy"
  /\ body[t] = <<>>
  /\ IF VerifyFileSHA256(dest[t], file[t].SHA256).valid
     THEN CacheGot(t, TRUE, "nil") /\ UNCHANGED dest
     ELSE /\ dest' = [dest EXCEPT ![t] = Absent]
          /\ CacheGot(t, FALSE, "checksum mismatch from cache")
  /\ UNCHANGED <<envVars, progVars, slept, cancelVars, schedVars, cacheObj, part, body,
                 srcReqs, cacheReqs>>

\* ------------------------------------------------------------- transfer
\* downloadFromSource up to the answer of source.Download: NewSource,
\* MkdirAll, openPartialFile (which creates or truncates an empty staging
\* file), then the request with the Range of the resume offset.
OpenAttempt(t) ==
  /\ pc[t] = "open"
  /\ \/ /\ NewSource(file[t].URL, cfg.Aliases) # "nil"
        /\ AttemptFailed(t, "creating source")
        /\ UNCHANGED <<part, offset, srcReqs>>
     \/ /\ NewSource(file[t].URL, cfg.Aliases) = "nil"
        /\ flaky[t]
        /\ AttemptFailed(t, "creating destination directory")
        /\ UNCHANGED <<part, offset, srcReqs>>
     \/ LET o == openPartialFile(part[t]) IN
        /\ NewSource(file[t].URL, cfg.Aliases) = "nil"
        /\ part' = [part EXCEPT ![t] = o.file]
        /\ offset' = [offset EXCEPT ![t] = o.offset]
        /\ \/ /\ cancelled
              /\ AttemptFailed(t, "downloading")
              /\ UNCHANGED srcReqs
           \/ /\ ~cancelled
              /\ srcReqs' = [srcReqs EXCEPT ![t] = [n |-> @.n + 1, range |-> RangeHeader(o.offset)]]
              /\ \/ /\ flaky[t]
                    /\ AttemptFailed(t, "downloading")
                 \/ \E mode \in {"honest", "ignoreRange", "failing"} :
                      LET r == Respond(srcObj[t], RangeHeader(o.offset), mode) IN
                      /\ mode = "honest"
                         => srcMode[t] = "honest" \/ o.offset = 0
                      /\ mode = "ignoreRange"
                         => /\ o.offset > 0
                            /\ flaky[t] \/ srcMode[t] = "ignoreRange"
                      /\ mode = "failing" => flaky[t]
                      /\ IF StatusAccepted(r.status)
                         THEN /\ Goto(t, "stream")
                              /\ body' = [body EXCEPT ![t] = r.body]
                              /\ UNCHANGED lastErr
                         ELSE AttemptFailed(t, "downloading")
  /\ UNCHANGED <<envVars, progVars, slept, cancelVars, schedVars, cacheObj, dest, attempt, err,
                 cacheReqs>>

\* performDownload: one read of io.Copy into the staging file. A chunk is
\* appended; or the read returns EOF, the copy is complete and the staging
\* file is closed; or the read fails (the context was cancelled, or the
\* transfer broke), which ends the attempt and leaves the staging file as it
\* is; performDownload then returns before progressWriter.Finish(), so the
\* bar it added to the container stays incomplete. After the last read the
\* bar is finished.
StreamChunk(t) ==
  /\ pc[t] = "stream"
  /\ \/ /\ body[t] # <<>>
        /\ ~cancelled
        /\ part' = [part EXCEPT ![t] = File(Append(@.data, Head(body[t])))]
        /\ body' = [body EXCEPT ![t] = Tail(@)]
        /\ UNCHANGED <<pc, lastErr, barLeft>>
     \/ /\ body[t] = <<>>
        /\ Goto(t, "finalize")
        /\ UNCHANGED <<part, body, lastErr, barLeft>>
     \/ /\ cancelled \/ flaky[t]
        /\ AttemptFailed(t, "writing file")
        /\ barLeft' = TRUE
        /\ UNCHANGED part
  /\ UNCHANGED <<envVars, waited, slept, cancelVars, schedVars, cacheObj, dest, attempt,
                 offset, err, srcReqs, cacheReqs>>

\* finalizeDownload verifies and publishes the complete staging file. On
\* success downloadWithRetry goes on to uploadToCache, which returns at once
\* when no cache is configured.
FinalizeDownload(t) ==
  /\ pc[t] = "finalize"
  /\ LET f == finalizeDownload(part[t], dest[t], file[t].SHA256) IN
     \/ /\ part' = [part EXCEPT ![t] = f.part]
        /\ dest' = [dest EXCEPT ![t] = f.dest]
        /\ IF f.err # "nil"
           THEN AttemptFailed(t, f.err) /\ UNCHANGED <<err, offset>>
           ELSE IF cfg.CacheEnabled
           THEN Goto(t, "putExists") /\ UNCHANGED <<lastErr, err, body, offset>>
           ELSE Ret(t, "nil") /\ UNCHANGED body
     \/ /\ f.err = "nil"
        /\ flaky[t]
        /\ AttemptFailed(t, "renaming file")
        /\ UNCHANGED <<part, dest, err, offset>>
  /\ UNCHANGED <<envVars, progVars, slept, cancelVars, schedVars, cacheObj, attempt, srcReqs,
                 cacheReqs>>

\* downloadWithRetry after a failed attempt: the cancellation check, then
\* the next iteration or the exhaustion error.
CheckCtx(t) ==
  /\ pc[t] = "checkctx"
  /\ IF cancelled THEN Ret(t, "context canceled") /\ UNCHANGED attempt
     ELSE IF attempt[t] < cfg.Retries
     THEN /\ attempt' = [attempt EXCEPT ![t] = @ + 1]
          /\ Goto(t, "sleep")
          /\ UNCHANGED <<err, offset, lastErr>>
     ELSE Ret(t, "all attempts") /\ UNCHANGED attempt
  /\ UNCHANGED <<envVars, progVars, slept, cancelVars, schedVars, cacheObj, dest, part, body,
                 srcReqs, cacheReqs>>

\* time.Sleep(RetryDelay) before attempts 2..Retries; the sleep does not
\* watch the context.
Sleep(t) ==
  /\ pc[t] = "sleep"
  /\ slept' = [slept EXCEPT ![t] = Append(@, cfg.RetryDelay)]
  /\ Goto(t, "open")
  /\ UNCHANGED <<envVars, progVars, cancelVars, schedVars, cacheObj, dest, part, attempt,
                 offset, body, lastErr, err, srcReqs, cacheReqs>>

\* Cache.Put: source.Exists; the entry exists, or any error: uploadToCache
\* returns and downloadWithRetry returns nil.
PutExists(t) ==
  /\ pc[t] = "putExists"
  /\ \/ /\ cancelled
        /\ Ret(t, "nil")
        /\ UNCHANGED cacheReqs
     \/ /\ ~cancelled
        /\ cacheReqs' = [cacheReqs EXCEPT ![t] = Append(@, "head")]
        /\ \/ flaky[t] /\ Ret(t, "nil")
           \/ IF cacheObj[CacheKey(t)].kind = "file"
                 THEN Ret(t, "nil")
                 ELSE Goto(t, "putUpload") /\ UNCHANGED <<err, offset, lastErr>>
  /\ UNCHANGED <<envVars, progVars, slept, cancelVars, schedVars, cacheObj, dest, part, attempt,
                 body, srcReqs>>

\* Cache.Put: os.Open(sourcePath) and source.Upload of the destination file.
PutUpload(t) ==
  /\ pc[t] = "putUpload"
  /\ \/ /\ cancelled
        /\ UNCHANGED <<cacheReqs, cacheObj>>
     \/ /\ ~cancelled
        /\ cacheReqs' = [cacheReqs EXCEPT ![t] = Append(@, "put")]
        /\ \/ flaky[t] /\ UNCHANGED cacheObj
           \/ cacheObj' = [cacheObj EXCEPT ![CacheKey(t)] = dest[t]]
  /\ Ret(t, "nil")
  /\ UNCHANGED <<envVars, progVars, slept, cancelVars, schedVars, dest, part, attempt, body,
                 srcReqs>>

\* ------------------------------------------------------------- scheduler
\* resultCh <- {index, DownloadResult{file, err}}; the channel holds
\* len(Files) results, so the send never blocks.
Send(t) ==
  /\ pc[t] = "ret"
  /\ resultCh' = Append(resultCh, [index |-> t, Error |-> err[t]])
  /\ Goto(t, "sent")
  /\ UNCHANGED <<envVars, progVars, slept, cancelVars, cacheObj, dest, part, attempt, offset,
                 body, lastErr, err, srcReqs, cacheReqs, sem, wg,
                 closed, results, returned>>

\* The deferred calls of the worker: <-semaphore, then wg.Done().
Release(t) ==
  /\ pc[t] = "sent"
  /\ sem' = sem - 1
  /\ wg' = wg - 1
  /\ Goto(t, "exit")
  /\ UNCHANGED <<envVars, progVars, slept, cancelVars, cacheObj, dest, part, attempt, offset,
                 body, lastErr, err, srcReqs, cacheReqs, resultCh,
                 closed, results, returned>>

\* go func() { wg.Wait(); close(resultCh) }()
CloseCh ==
  /\ wg = 0
  /\ ~closed
  /\ closed' = TRUE
  /\ UNCHANGED <<envVars, progVars, slept, cancelVars, cacheObj, dest, part, pc, attempt,
                 offset, body, lastErr, err, srcReqs, cacheReqs, sem,
                 wg, resultCh, results, returned>>

\* for r := range resultCh { results[r.index] = r.result }
Collect ==
  /\ resultCh # <<>>
  /\ results' = [results EXCEPT ![Head(resultCh).index] = Head(resultCh).Error]
  /\ resultCh' = Tail(resultCh)
  /\ UNCHANGED <<envVars, progVars, slept, cancelVars, cacheObj, dest, part, pc, attempt,
                 offset, body, lastErr, err, srcReqs, cacheReqs, sem,
                 wg, closed, returned>>

\* The range loop ends on the closed, drained channel: every result is
\* collected and Download goes on to progress.Wait().
Return ==
  /\ closed
  /\ resultCh = <<>>
  /\ ~returned
  /\ returned' = TRUE
  /\ UNCHANGED <<envVars, progVars, slept, cancelVars, cacheObj, dest, part, pc, attempt,
                 offset, body, lastErr, err, srcReqs, cacheReqs, sem,
                 wg, resultCh, closed, results>>

\* progress.Wait(), then "return results". The container was made by
\* mpb.NewWithContext(ctx): its Wait returns when every bar added to it has
\* completed, or when the context is done (which aborts the bars).
ProgressWait ==
  /\ returned
  /\ ~waited
  /\ ~barLeft \/ cancelled
  /\ waited' = TRUE
  /\ UNCHANGED <<envVars, barLeft, slept, cancelVars, schedVars, cacheObj, dest,
                 part, pc, attempt, offset, body, lastErr, err, srcReqs,
                 cacheReqs>>

\* Where a worker stands for the cancellation signal: not yet admitted; at
\* the existing-file check; in its cache fetch or transfer; holding every
\* byte of its open stream, not yet verified; with the verified file at the
\* destination; or back from downloadFile.
Phase(t) ==
  IF pc[t] = "idle" THEN "waiting"
  ELSE IF pc[t] = "check" THEN "checking"
  ELSE IF pc[t] \in {"ret", "sent", "exit"} THEN "finished"
  ELSE IF pc[t] \in {"putExists", "putUpload"} THEN "published"
  ELSE IF pc[t] = "finalize" \/ (pc[t] \in {"stream", "cacheCopy"} /\ body[t] = <<>>)
  THEN "received"
  ELSE "inflight"

\* run: the signal goroutine calls cancel() on SIGINT or SIGTERM. The context
\* is read by the pipelines only, so the signal is modelled while one of them
\* has not returned yet.
Cancel ==
  /\ ~cancelled
  /\ \E t \in Tasks : Phase(t) # "finished"
  /\ cancelled' = TRUE
  /\ atCancel' = [t \in Tasks |-> Phase(t)]
  /\ UNCHANGED <<envVars, progVars, slept, schedVars, cacheObj, dest, part, pc, attempt, offset,
                 body, lastErr, err, srcReqs, cacheReqs>>

\* ------------------------------------------------------------- report
\* A variant of reportResultsFrom that does not count a cancelled task.
RECURSIVE reportResultsFrom_skipCancelled(_, _)
reportResultsFrom_skipCancelled(rs, i) ==
  IF i > Len(rs) THEN 0
  ELSE (IF rs[i] \notin {"nil", "context canceled"} THEN 1 ELSE 0)
       + reportResultsFrom_skipCancelled(rs, i + 1)

\* reportResults: the loop over the results from position i on, counting
\* every result whose Error is not nil.
RECURSIVE reportResultsFrom(_, _)
reportResultsFrom(rs, i) ==
  IF i > Len(rs) THEN 0
  ELSE (IF rs[i] # "nil" THEN 1 ELSE 0) + reportResultsFrom(rs, i + 1)

reportResults(rs) == reportResultsFrom(rs, 1)

\* run: the exit code after Download returned rs.
run(rs) == IF reportResults(rs) > 0 THEN 1 ELSE 0

\* ------------------------------------------------------------- runs
Good == Ones(Size)
Bad == [Good EXCEPT ![Size] = 0]
Old == <<0>>

\* The state of Download after the fan-out loop, for n tasks.
Start(n) ==
  /\ pc = [t \in 1..n |-> "idle"]
  /\ attempt = [t \in 1..n |-> 0]
  /\ slept = [t \in 1..n |-> <<>>]
  /\ offset = [t \in 1..n |-> 0]
  /\ body = [t \in 1..n |-> <<>>]
  /\ lastErr = [t \in 1..n |-> "nil"]
  /\ err = [t \in 1..n |-> "none"]
  /\ srcReqs = [t \in 1..n |-> [n |-> 0, range |-> NoRange]]
  /\ cacheReqs = [t \in 1..n |-> <<>>]
  /\ sem = 0
  /\ wg = n
  /\ resultCh = <<>>
  /\ closed = FALSE
  /\ results = [t \in 1..n |-> "unset"]
  /\ returned = FALSE
  /\ cancelled = FALSE
  /\ atCancel = [t \in 1..n |-> "none"]
  /\ barLeft = FALSE
  /\ waited = FALSE

\* No configuration is being loaded.
NotLoading ==
  /\ paths = <<>>
  /\ baseConfig = EmptyConfig
  /\ loadIdx = 0
  /\ loadPc = "ok"

\* One file task of Size bytes, in every environment; its url is an https
\* url, or an s3 url whose alias the configuration does not have.
Init ==
  /\ cfg \in [Parallel : {1}, Retries : 1..MaxRetries,
              CacheEnabled : BOOLEAN, Aliases : {{"store"}},
              RetryDelay : {defaultRetryDelay}]
  /\ flaky \in {<<FALSE>>, <<TRUE>>}
  /\ file \in {<<[URL |-> u, SHA256 |-> Digest(Good)]>> :
                u \in {Https, S3("other")}}
  /\ srcObj \in {<<Good>>, <<Bad>>}
  /\ srcMode = <<"honest">>
  /\ cacheObj \in {[d \in {Digest(Good)} |-> c] :
                    c \in IF cfg.CacheEnabled
                          THEN {Absent, File(Good), File(Bad)}
                          ELSE {Absent}}
  /\ dest \in {<<Absent>>, <<Dir>>, <<File(Good)>>, <<File(Old)>>,
              <<Unreadable(Good)>>}
  /\ part \in {<<Absent>>}
              \cup {<<File(Prefix(Good, k))>> : k \in 0..Size}
              \cup {<<File(Zeros(k))>> : k \in 1..(Size - 1)}
  /\ Start(1)
  /\ NotLoading

Next ==
  \/ \E t \in Tasks : Acquire(t)
  \/ \E t \in Tasks : CheckExisting(t)
  \/ \E t \in Tasks : CacheExists(t)
  \/ \E t \in Tasks : CacheOpen(t)
  \/ \E t \in Tasks : CacheCopy(t)
  \/ \E t \in Tasks : CacheVerify(t)
  \/ \E t \in Tasks : OpenAttempt(t)
  \/ \E t \in Tasks : StreamChunk(t)
  \/ \E t \in Tasks : FinalizeDownload(t)
  \/ \E t \in Tasks : CheckCtx(t)
  \/ \E t \in Tasks : Sleep(t)
  \/ \E t \in Tasks : PutExists(t)
  \/ \E t \in Tasks : PutUpload(t)
  \/ \E t \in Tasks : Send(t)
  \/ \E t \in Tasks : Release(t)
  \/ CloseCh
  \/ Collect
  \/ Return
  \/ ProgressWait
  \/ Cancel

Spec == Init /\ [][Next]_vars

\* The object of task t of a scheduler run; no two tasks have the same.
SchedObj(t) == [i \in 1..((t + 1) \div 2) |-> t % 2]

\* A scheduler run: MaxTasks file tasks of distinct small objects, no
\* staging file, an empty cache when one is configured, one attempt per
\* task, under a semaphore of 1..MaxParallel slots; the environment of the
\* first task may fail and the last task may find its file on disk. The
\* cache never holds an entry before its task has published and retries = 1
\* never sleeps, so the actions CacheOpen, CacheCopy, CacheVerify and Sleep
\* are never enabled in such a run and SchedNext leaves them out.
SchedInit ==
  /\ cfg \in [Parallel : 1..MaxParallel, Retries : {1}, CacheEnabled : BOOLEAN,
              Aliases : {{"store"}}, RetryDelay : {defaultRetryDelay}]
  /\ file = [t \in 1..MaxTasks |->
              [URL |-> IF t % 2 = 0 THEN S3("store") ELSE Https,
               SHA256 |-> Digest(SchedObj(t))]]
  /\ srcObj = [t \in 1..MaxTasks |-> SchedObj(t)]
  /\ srcMode = [t \in 1..MaxTasks |-> "honest"]
  /\ flaky = [t \in 1..MaxTasks |-> t = 1]
  /\ cacheObj = [d \in {Digest(SchedObj(t)) : t \in 1..MaxTasks} |-> Absent]
  /\ dest \in {[t \in 1..MaxTasks |-> IF t = MaxTasks THEN d ELSE Absent] :
                d \in {Absent, File(SchedObj(MaxTasks))}}
  /\ part = [t \in 1..MaxTasks |-> Absent]
  /\ Start(MaxTasks)
  /\ NotLoading

SchedNext ==
  \/ \E t \in Tasks : Acquire(t)
  \/ \E t \in Tasks : CheckExisting(t)
  \/ \E t \in Tasks : CacheExists(t)
  \/ \E t \in Tasks : OpenAttempt(t)
  \/ \E t \in Tasks : StreamChunk(t)
  \/ \E t \in Tasks : FinalizeDownload(t)
  \/ \E t \in Tasks : CheckCtx(t)
  \/ \E t \in Tasks : PutExists(t)
  \/ \E t \in Tasks : PutUpload(t)
  \/ \E t \in Tasks : Send(t)
  \/ \E t \in Tasks : Release(t)
  \/ CloseCh
  \/ Collect
  \/ Return
  \/ ProgressWait
  \/ Cancel

SchedSpec == SchedInit /\ [][SchedNext]_vars

\* The Go scheduler runs every runnable goroutine and every network call
\* returns, so a run does not stop while a step is possible.
FairSchedSpec == SchedSpec /\ WF_vars(SchedNext)

\* A run of one task whose every attempt may fail, with one attempt more
\* than MaxRetries allowed, no cache, no staging file and no destination.
RetryInit ==
  /\ cfg = [Parallel |-> 1, Retries |-> MaxRetries + 1, CacheEnabled |-> FALSE,
            Aliases |-> {"store"}, RetryDelay |-> defaultRetryDelay]
  /\ file = <<[URL |-> Https, SHA256 |-> Digest(Good)]>>
  /\ srcObj = <<Good>>
  /\ srcMode = <<"honest">>
  /\ flaky = <<TRUE>>
  /\ cacheObj = [d \in {Digest(Good)} |-> Absent]
  /\ dest = <<Absent>>
  /\ part = <<Absent>>
  /\ Start(1)
  /\ NotLoading

RetryNext ==
  \/ \E t \in Tasks : Acquire(t)
  \/ \E t \in Tasks : CheckExisting(t)
  \/ \E t \in Tasks : OpenAttempt(t)
  \/ \E t \in Tasks : StreamChunk(t)
  \/ \E t \in Tasks : FinalizeDownload(t)
  \/ \E t \in Tasks : CheckCtx(t)
  \/ \E t \in Tasks : Sleep(t)
  \/ \E t \in Tasks : Send(t)
  \/ \E t \in Tasks : Release(t)
  \/ CloseCh
  \/ Collect
  \/ Return
  \/ ProgressWait
  \/ Cancel

RetrySpec == RetryInit /\ [][RetryNext]_vars

\* A run whose MaxTasks file entries name the same one-byte object, each
\* with a destination of its own, so that they share one cache entry; the
\* cache is enabled and empty, the environment does not fail, one attempt.
ShareObj == <<1>>
ShareInit ==
  /\ cfg \in [Parallel : 1..MaxParallel, Retries : {1}, CacheEnabled : {TRUE},
              Aliases : {{"store"}}, RetryDelay : {defaultRetryDelay}]
  /\ file = [t \in 1..MaxTasks |-> [URL |-> Https, SHA256 |-> Digest(ShareObj)]]
  /\ srcObj = [t \in 1..MaxTasks |-> ShareObj]
  /\ srcMode = [t \in 1..MaxTasks |-> "honest"]
  /\ flaky = [t \in 1..MaxTasks |-> FALSE]
  /\ cacheObj = [d \in {Digest(ShareObj)} |-> Absent]
  /\ dest = [t \in 1..MaxTasks |-> Absent]
  /\ part = [t \in 1..MaxTasks |-> Absent]
  /\ Start(MaxTasks)
  /\ NotLoading

ShareNext ==
  \/ \E t \in Tasks : Acquire(t)
  \/ \E t \in Tasks : CheckExisting(t)
  \/ \E t \in Tasks : CacheExists(t)
  \/ \E t \in Tasks : CacheOpen(t)
  \/ \E t \in Tasks : CacheCopy(t)
  \/ \E t \in Tasks : CacheVerify(t)
  \/ \E t \in Tasks : OpenAttempt(t)
  \/ \E t \in Tasks : StreamChunk(t)
  \/ \E t \in Tasks : FinalizeDownload(t)
  \/ \E t \in Tasks : CheckCtx(t)
  \/ \E t \in Tasks : PutExists(t)
  \/ \E t \in Tasks : PutUpload(t)
  \/ \E t \in Tasks : Send(t)
  \/ \E t \in Tasks : Release(t)
  \/ CloseCh
  \/ Collect
  \/ Return
  \/ ProgressWait
  \/ Cancel

ShareSpec == ShareInit /\ [][ShareNext]_vars

\* A run of one task whose source ignores the Range header and serves the
\* whole expected object with status 200, and whose staging path holds
\* nothing, a prefix of the object (the whole of it included) or other
\* bytes; nothing else fails; the cache, when configured, is empty.  Every
\* step that is possible is taken in the end.
IgnoreInit ==
  /\ cfg \in [Parallel : {1}, Retries : 1..MaxRetries, CacheEnabled : BOOLEAN,
              Aliases : {{"store"}}, RetryDelay : {defaultRetryDelay}]
  /\ file = <<[URL |-> Https, SHA256 |-> Digest(Good)]>>
  /\ srcObj = <<Good>>
  /\ srcMode = <<"ignoreRange">>
  /\ flaky = <<FALSE>>
  /\ cacheObj = [d \in {Digest(Good)} |-> Absent]
  /\ dest \in {<<Absent>>, <<File(Old)>>}
  /\ part \in {<<Absent>>}
              \cup {<<File(Prefix(Good, k))>> : k \in 0..Size}
              \cup {<<File(Zeros(k))>> : k \in 1..(Size - 1)}
  /\ Start(1)
  /\ NotLoading

IgnoreNext ==
  \/ \E t \in Tasks : Acquire(t)
  \/ \E t \in Tasks : CheckExisting(t)
  \/ \E t \in Tasks : CacheExists(t)
  \/ \E t \in Tasks : OpenAttempt(t)
  \/ \E t \in Tasks : StreamChunk(t)
  \/ \E t \in Tasks : FinalizeDownload(t)
  \/ \E t \in Tasks : CheckCtx(t)
  \/ \E t \in Tasks : Sleep(t)
  \/ \E t \in Tasks : PutExists(t)
  \/ \E t \in Tasks : PutUpload(t)
  \/ \E t \in Tasks : Send(t)
  \/ \E t \in Tasks : Release(t)
  \/ CloseCh
  \/ Collect
  \/ Return
  \/ ProgressWait
  \/ Cancel

IgnoreSpec == IgnoreInit /\ [][IgnoreNext]_vars /\ WF_vars(IgnoreNext)

\* LoadMultiple over 1..MaxConfigs files, every one readable YAML.  The
\* aliases of a file are none, "a", or "a" and "b"; the two Alias values
\* differ in every field and one has an empty field.  A setting of a file
\* is absent (0), negative or positive.  A file lists no entry, a complete
\* entry, or an entry without url.  No file configures the cache.
AliasOne == [Endpoint |-> "e1", Bucket |-> "b1"]
AliasTwo == [Endpoint |-> "e2", Bucket |-> ""]
AliasMaps ==
  {NoAliases, [n \in {"a"} |-> AliasOne],
   [n \in {"a", "b"} |-> IF n = "a" THEN AliasTwo ELSE AliasOne]}
EntryOne == [URL |-> "u1", Dest |-> "d1", SHA256 |-> "h1"]
EntryTwo == [URL |-> "", Dest |-> "d2", SHA256 |-> "h2"]
Configs ==
  {[Aliases |-> a, Cache |-> NoCache, Settings |-> s, Files |-> f] :
     a \in AliasMaps,
     s \in [Parallel : {0, 1, 2}, Retries : {0 - 1, 2}, RetryDelay : {0, 1},
            Timeout : {0}],
     f \in {<<>>, <<EntryOne>>, <<EntryTwo>>}}

\* No download runs.
NoRun ==
  /\ cfg = [Parallel |-> 1, Retries |-> 1, CacheEnabled |-> FALSE,
            Aliases |-> {}, RetryDelay |-> defaultRetryDelay]
  /\ file = <<>>
  /\ srcObj = <<>>
  /\ srcMode = <<>>
  /\ flaky = <<>>
  /\ cacheObj = <<>>
  /\ dest = <<>>
  /\ part = <<>>
  /\ Start(0)

runVars == <<cfg, file, srcObj, srcMode, flaky, cacheObj, dest, part, pc, attempt,
             offset, body, lastErr, err, srcReqs, cacheReqs, sem, wg, resultCh,
             closed, results, returned, cancelled, atCancel, slept, barLeft,
             waited>>

\* LoadMultiple after loadWithoutValidation of the first path.
LoadInit ==
  /\ \E n \in 1..MaxConfigs : paths \in [1..n -> Configs]
  /\ baseConfig = paths[1]
  /\ loadIdx = 1
  /\ loadPc = "merge"
  /\ NoRun

\* One iteration of the merge loop of LoadMultiple.
LoadMerge ==
  /\ loadPc = "merge"
  /\ loadIdx < Len(paths)
  /\ baseConfig' = mergeConfigs(baseConfig, paths[loadIdx + 1])
  /\ loadIdx' = loadIdx + 1
  /\ UNCHANGED <<runVars, paths, loadPc>>

\* LoadMultiple after the loop: applyDefaults.
LoadDefaults ==
  /\ loadPc = "merge"
  /\ loadIdx = Len(paths)
  /\ baseConfig' = applyDefaults(baseConfig)
  /\ loadPc' = "validate"
  /\ UNCHANGED <<runVars, paths, loadIdx>>

\* LoadMultiple: validate, and the return.
LoadValidate ==
  /\ loadPc = "validate"
  /\ loadPc' = IF validate(baseConfig) = "nil" THEN "ok" ELSE "error"
  /\ UNCHANGED <<runVars, paths, baseConfig, loadIdx>>

LoadNext ==
  \/ LoadMerge
  \/ LoadDefaults
  \/ LoadValidate

LoadSpec == LoadInit /\ [][LoadNext]_vars

\* ------------------------------------------------------------- properties
\* The destination of task t holds a complete file of the expected digest.
Valid(t) == dest[t].kind = "file" /\ Digest(dest[t].data) = file[t].SHA256
\* downloadFile of worker t has returned.
Finished == {"ret", "sent", "exit"}
\* Worker t is inside Cache.Get.
InCacheGet == {"cacheExists", "cacheOpen", "cacheCopy"}
\* d extends the byte sequence c.
Extends(d, c) == Len(d) >= Len(c) /\ Prefix(d, Len(c)) = c

\* C1: the content at a destination path only ever changes to a complete
\* file of the expected digest: whatever the step, the destination is what
\* it was before the step or it is the verified file, so no partial or
\* unverified bytes ever appear there.
C1_DestOnlyVerified ==
  [][\A t \in Tasks :
       \/ dest'[t] = dest[t]
       \/ dest'[t].kind = "file" /\ Digest(dest'[t].data) = file[t].SHA256]_vars

\* C2: when the stream has completed and the digest of the staging file is
\* not the expected one, the step that follows removes the staging file,
\* fails the attempt with a checksum error and leaves the destination as it
\* was (absent stays absent, a file keeps its bytes).
C2_MismatchRemovesStaging ==
  [][\A t \in Tasks :
       (/\ pc[t] = "finalize"
        /\ part[t].kind = "file"
        /\ Digest(part[t].data) # file[t].SHA256
        /\ pc'[t] # "finalize")
       => /\ part'[t] = Absent
          /\ pc'[t] = "checkctx"
          /\ lastErr'[t] = "checksum mismatch"
          /\ dest'[t] = dest[t]]_vars
C2_Witness ==
  \E t \in Tasks : /\ pc[t] = "checkctx"
                   /\ lastErr[t] = "checksum mismatch"
                   /\ part[t] = Absent
                   /\ srcReqs[t].n > 0

\* C3: an attempt that finds the first K bytes of the object in the staging
\* file (0 < K < total) asks the source for "bytes=K-" and keeps the K bytes;
\* every chunk of a resumed attempt is appended behind what is staged; and
\* what a resumed attempt publishes has the size of the object and the
\* expected digest.
C3_Resume ==
  [][\A t \in Tasks :
       /\ (/\ pc[t] = "open"
           /\ part[t].kind = "file"
           /\ Len(part[t].data) \in 1..(Len(srcObj[t]) - 1)
           /\ part[t].data = Prefix(srcObj[t], Len(part[t].data))
           /\ srcReqs'[t].n = srcReqs[t].n + 1)
          => /\ srcReqs'[t].range = Len(part[t].data)
             /\ offset'[t] = Len(part[t].data)
             /\ part'[t] = part[t]
       /\ (pc[t] = "stream" /\ offset[t] > 0 /\ part'[t] # part[t])
          => /\ part'[t].kind = "file"
             /\ Len(part'[t].data) = Len(part[t].data) + 1
             /\ Extends(part'[t].data, part[t].data)
       /\ (pc[t] = "finalize" /\ offset[t] > 0 /\ dest'[t] # dest[t])
          => /\ dest'[t].kind = "file"
             /\ Len(dest'[t].data) = Len(srcObj[t])
             /\ Digest(dest'[t].data) = file[t].SHA256]_vars
C3_Witness ==
  \E t \in Tasks : /\ pc[t] = "ret"
                   /\ err[t] = "nil"
                   /\ srcReqs[t] = [n |-> 1, range |-> Size - 1]
                   /\ dest[t] = File(srcObj[t])
                   /\ part[t] = Absent

\* C4: with no cache, no destination and no staging file (or an empty one),
\* the first attempt sends exactly one source request, without Range; the
\* size of the staging file never decreases while streaming; and when the
\* environment does not fail, nobody cancels and the source holds the object
\* of the expected digest, the task ends without error, with the bytes of
\* the source at the destination and no staging file left.
C4_FreshDownload ==
  [][\A t \in Tasks :
       /\ (/\ pc[t] = "open"
           /\ pc'[t] # "open"
           /\ attempt[t] = 1
           /\ part[t] \in {Absent, File(<<>>)}
           /\ dest[t] = Absent
           /\ NewSource(file[t].URL, cfg.Aliases) = "nil"
           /\ ~cfg.CacheEnabled)
          => /\ srcReqs[t].n = 0
             /\ srcReqs'[t] \in {srcReqs[t], [n |-> 1, range |-> NoRange]}
             /\ (~cancelled /\ ~flaky[t])
                => /\ srcReqs'[t] = [n |-> 1, range |-> NoRange]
                   /\ pc'[t] = "stream"
       /\ pc[t] = "stream"
          => /\ part'[t].kind = "file"
             /\ Extends(part'[t].data, part[t].data)
       /\ (/\ pc'[t] \in Finished
           /\ ~cfg.CacheEnabled
           /\ ~cancelled' /\ ~flaky[t]
           /\ srcReqs'[t] = [n |-> 1, range |-> NoRange]
           /\ Digest(srcObj[t]) = file[t].SHA256)
          => /\ err'[t] = "nil"
             /\ dest'[t] = File(srcObj[t])
             /\ part'[t] = Absent]_vars
C4_Witness ==
  \E t \in Tasks : /\ pc[t] = "ret"
                   /\ err[t] = "nil"
                   /\ ~cfg.CacheEnabled /\ ~cancelled /\ ~flaky[t]
                   /\ srcReqs[t] = [n |-> 1, range |-> NoRange]
                   /\ dest[t] = File(srcObj[t])
                   /\ part[t] = Absent

\* C5: a pipeline that finds a file of the expected digest at its
\* destination has sent no request before the check, returns from the check
\* without error and without touching destination or staging file, and
\* after its return sends no request and changes no file.
C5_SkipValid ==
  [][\A t \in Tasks :
       /\ pc[t] \in {"idle", "check"}
          => srcReqs[t].n = 0 /\ cacheReqs[t] = <<>>
       /\ (pc[t] = "check" /\ Valid(t) /\ pc'[t] # "check")
          => /\ pc'[t] = "ret"
             /\ err'[t] = "nil"
             /\ dest'[t] = dest[t] /\ part'[t] = part[t]
             /\ srcReqs'[t] = srcReqs[t] /\ cacheReqs'[t] = cacheReqs[t]
       /\ pc[t] \in Finished
          => /\ pc'[t] \in Finished
             /\ err'[t] = err[t]
             /\ dest'[t] = dest[t] /\ part'[t] = part[t]
             /\ srcReqs'[t] = srcReqs[t] /\ cacheReqs'[t] = cacheReqs[t]]_vars
C5_Witness ==
  \E t \in Tasks : /\ returned
                   /\ results[t] = "nil"
                   /\ cfg.CacheEnabled
                   /\ srcReqs[t].n = 0 /\ cacheReqs[t] = <<>>
                   /\ Valid(t)
                   /\ part[t] # Absent

\* C6: a pipeline leaves the cache fetch either with a verified file at the
\* destination (a hit, no error) or for the first attempt of the source
\* transfer, with no error recorded; a cache without the entry and a cache
\* entry of another digest both lead to the source; what the source
\* transfer publishes is verified, and a task that went to the source and
\* ends without error has the bytes of the source at its destination.
C6_CacheMissFallsBack ==
  [][\A t \in Tasks :
       /\ (pc[t] \in InCacheGet /\ pc'[t] \notin InCacheGet)
          => \/ pc'[t] = "ret" /\ err'[t] = "nil" /\ Valid(t)'
             \/ pc'[t] = "open" /\ attempt'[t] = 1 /\ err'[t] = "none"
       /\ (pc[t] = "cacheExists" /\ cacheObj[CacheKey(t)] = Absent /\ pc'[t] # pc[t])
          => pc'[t] = "open"
       /\ (/\ pc[t] = "cacheCopy" /\ body[t] = <<>> /\ ~Valid(t)
           /\ pc'[t] # pc[t])
          => pc'[t] = "open"
       /\ pc'[t] \in {"putExists", "putUpload"} => Valid(t)'
       /\ (pc[t] \in {"putExists", "putUpload"} /\ pc'[t] # pc[t])
          => \/ pc'[t] = "putUpload" /\ err'[t] = "none"
             \/ pc'[t] = "ret" /\ err'[t] = "nil"
       /\ (pc'[t] \in Finished /\ err'[t] = "nil")
          => /\ Valid(t)'
             /\ srcReqs'[t].n > 0 => dest'[t] = File(srcObj[t])]_vars
C6_Witness ==
  \E t \in Tasks : /\ pc[t] = "ret"
                   /\ err[t] = "nil"
                   /\ cacheObj[CacheKey(t)] = File(Bad)
                   /\ cacheReqs[t] = <<"head", "get", "head">>
                   /\ srcReqs[t].n = 1
                   /\ dest[t] = File(srcObj[t])

\* The workers between the semaphore send and the deferred receive.
PastGate == {t \in Tasks : pc[t] \notin {"idle", "exit"}}

\* C7: in every state at most settings.parallel workers are past the
\* semaphore (so at most that many are streaming), and the semaphore holds
\* one slot for each of them.
C7_AtMostParallel ==
  /\ Cardinality(PastGate) <= cfg.Parallel
  /\ Cardinality({t \in Tasks : pc[t] = "stream"}) <= cfg.Parallel
  /\ sem = Cardinality(PastGate)
C7_Witness ==
  /\ Cardinality(PastGate) = cfg.Parallel
  /\ \E t \in Tasks : pc[t] = "stream"
  /\ \E t \in Tasks : pc[t] = "idle"

\* The number of results of task t that are in the channel or in the slice.
Emitted(t) ==
  Cardinality({i \in 1..Len(resultCh) : resultCh[i].index = t})
  + (IF results[t] # "unset" THEN 1 ELSE 0)

\* C8: the results slice has one position per task; a task has exactly one
\* result in the channel or the slice once it has sent and none before; a
\* result in the channel carries the outcome of the task of its index; and
\* when Download returns, position i holds the outcome of task i.
C8_ResultsByIndex ==
  /\ DOMAIN results = Tasks
  /\ \A t \in Tasks :
       /\ Emitted(t) = (IF pc[t] \in {"sent", "exit"} THEN 1 ELSE 0)
       /\ results[t] \in {"unset", err[t]}
  /\ \A i \in 1..Len(resultCh) : resultCh[i].Error = err[resultCh[i].index]
  /\ returned => \A t \in Tasks : results[t] = err[t] /\ err[t] # "none"
C8_Witness ==
  /\ returned
  /\ results[1] = "all attempts"
  /\ results[MaxTasks] = "nil"
  /\ ~cancelled

\* C9 as stated: when Download has returned after a cancellation, every
\* task has a result, every task that was admitted and had not published
\* when the signal came reports the cancellation, and no task that was
\* waiting for the semaphore has sent a request.
C9_InFlightAllCancelled ==
  (returned /\ cancelled)
  => \A t \in Tasks :
       /\ results[t] # "unset"
       /\ atCancel[t] \in {"checking", "inflight", "received"}
          => results[t] = "context canceled"
       /\ atCancel[t] = "waiting"
          => srcReqs[t].n = 0 /\ cacheReqs[t] = <<>>

\* What C9 holds of a returned, cancelled run.
CancelOutcomes ==
  (returned /\ cancelled)
  => \A t \in Tasks :
       /\ results[t] # "unset"
       /\ atCancel[t] = "inflight" => results[t] = "context canceled"
       /\ atCancel[t] = "received"
          => \/ results[t] = "context canceled"
             \/ results[t] = "nil" /\ Valid(t)
       /\ atCancel[t] \in {"waiting", "checking"}
          => \/ results[t] = "context canceled"
             \/ results[t] = "nil" /\ Valid(t)
             \/ results[t] = "checking existing file"
       /\ atCancel[t] = "waiting"
          => srcReqs[t].n = 0 /\ cacheReqs[t] = <<>>

\* C9: after a cancellation Download still collects the result of every
\* task (it returns, with no position unset); a task that was in its cache
\* fetch or transfer reports the cancellation; a task that held every byte
\* of its stream, unverified, reports the cancellation or publishes the
\* verified file and reports no error; a task that had not passed the
\* existing-file check reports the cancellation or the outcome of that check
\* (a valid file and no error, or the check's error); no request is sent
\* after the signal, so a task that was waiting for the semaphore never
\* sends one.
C9_CancelOutcomes ==
  /\ []CancelOutcomes
  /\ [][cancelled => (srcReqs' = srcReqs /\ cacheReqs' = cacheReqs)]_vars
  /\ cancelled ~> returned
C9_Witness ==
  /\ returned
  /\ cancelled
  /\ \E t \in Tasks : atCancel[t] = "received" /\ results[t] = "nil"
  /\ \E t \in Tasks : atCancel[t] = "waiting" /\ results[t] = "context canceled"

\* C10: a failed read of a cancelled transfer leaves staging file and
\* destination as they are and records the write error; the cancellation
\* check that follows changes neither file and returns the cancellation; and
\* after the return nothing changes them, so the staged bytes are the
\* offset the next run resumes from.
C10_CancelKeepsStaging ==
  [][\A t \in Tasks :
       /\ (cancelled /\ pc[t] = "stream" /\ pc'[t] = "checkctx")
          => /\ part'[t] = part[t]
             /\ dest'[t] = dest[t]
             /\ lastErr'[t] = "writing file"
       /\ (cancelled /\ pc[t] = "checkctx" /\ pc'[t] # "checkctx")
          => /\ part'[t] = part[t]
             /\ dest'[t] = dest[t]
             /\ pc'[t] = "ret"
             /\ err'[t] = "context canceled"
       /\ (pc[t] \in Finished /\ err[t] = "context canceled")
          => /\ part'[t] = part[t]
             /\ dest'[t] = dest[t]
             /\ openPartialFile(part[t]).offset = Len(part[t].data)]_vars
C10_Witness ==
  \E t \in Tasks : /\ pc[t] = "ret"
                   /\ err[t] = "context canceled"
                   /\ atCancel[t] = "inflight"
                   /\ part[t].kind = "file"
                   /\ Len(part[t].data) \in 1..(Size - 1)
                   /\ srcReqs[t].n > 0

\* C11: the ctx.Err() check that follows a failed attempt of a cancelled run
\* returns the cancellation itself, whatever the attempt number; and no
\* worker returns from downloadFile under a cancelled context with the
\* exhaustion error (the transfer error of an attempt is never a result).
C11_CancelUnwrapped ==
  [][\A t \in Tasks :
       /\ (cancelled /\ pc[t] = "checkctx" /\ pc'[t] # "checkctx")
          => pc'[t] = "ret" /\ err'[t] = "context canceled"
       /\ (cancelled /\ err[t] = "none" /\ err'[t] # "none")
          => err'[t] \in {"context canceled", "nil", "checking existing file"}]_vars
C11_Witness ==
  \E t \in Tasks : /\ pc[t] = "ret"
                   /\ err[t] = "context canceled"
                   /\ cfg.Retries = MaxRetries
                   /\ attempt[t] = cfg.Retries
                   /\ srcReqs[t].n = cfg.Retries

\* C12 as stated: when Download has returned, the failed count of the run
\* is the number of results that carry an error other than the
\* cancellation, and a run whose only errors are cancellations exits with
\* code 0.
C12_CancelledNotFailed ==
  returned
  => /\ reportResults(results)
        = Cardinality({t \in Tasks : results[t] \notin {"nil", "context canceled"}})
     /\ (\A t \in Tasks : results[t] \in {"nil", "context canceled"})
        => run(results) = 0

\* C13: when Download has returned, the exit code is 1 exactly when some
\* result carries an error and 0 otherwise, and the failed count is the
\* number of results whose error is set, among one result per task.
C13_FailedIffError ==
  returned
  => /\ Len(results) = Cardinality(Tasks)
     /\ reportResults(results) = Cardinality({t \in Tasks : results[t] # "nil"})
     /\ run(results) = (IF \E t \in Tasks : results[t] # "nil" THEN 1 ELSE 0)
C13_Witness ==
  /\ returned
  /\ run(results) = 1
  /\ reportResults(results) = 1
  /\ \E t \in Tasks : results[t] = "context canceled"
  /\ \E t \in Tasks : results[t] = "nil"

\* Worker t is inside the loop of downloadWithRetry, before a success.
InRetryLoop == {"open", "stream", "finalize", "checkctx", "sleep"}

\* C14: inside the retry loop the attempt number is between 1 and
\* settings.retries and no more requests were sent than attempts started;
\* the delay is entered only from a failed attempt, with the attempt number
\* raised, so never before attempt 1; after a published attempt no attempt
\* and no request follows; and the exhaustion error is returned only from
\* the failure of attempt number settings.retries, keeping that failure, and
\* is what an uncancelled loop returns when that attempt fails.
C14_RetryBudget ==
  [][\A t \in Tasks :
       /\ pc'[t] \in InRetryLoop
          => /\ attempt'[t] \in 1..cfg.Retries
             /\ srcReqs'[t].n <= attempt'[t]
       /\ (pc'[t] = "open" /\ pc[t] \notin InRetryLoop) => attempt'[t] = 1
       /\ (pc'[t] = "sleep" /\ pc[t] # "sleep")
          => /\ pc[t] = "checkctx"
             /\ lastErr[t] # "nil"
             /\ attempt'[t] = attempt[t] + 1
       /\ pc[t] = "sleep" => attempt[t] >= 2 /\ attempt'[t] = attempt[t]
       /\ (pc[t] = "finalize" /\ dest'[t] # dest[t])
          => pc'[t] \in {"putExists", "ret"}
       /\ pc[t] \in {"putExists", "putUpload"} \cup Finished
          => /\ pc'[t] \notin InRetryLoop
             /\ attempt'[t] = attempt[t]
             /\ srcReqs'[t] = srcReqs[t]
       /\ (err[t] = "none" /\ err'[t] = "all attempts")
          => /\ pc[t] = "checkctx"
             /\ ~cancelled
             /\ attempt[t] = cfg.Retries
             /\ lastErr[t] # "nil"
             /\ lastErr'[t] = lastErr[t]
       /\ (/\ pc[t] = "checkctx" /\ pc'[t] # "checkctx"
           /\ ~cancelled /\ attempt[t] = cfg.Retries)
          => pc'[t] = "ret" /\ err'[t] = "all attempts"]_vars
C14_Witness ==
  \E t \in Tasks : /\ pc[t] = "ret"
                   /\ err[t] = "all attempts"
                   /\ lastErr[t] = "checksum mismatch"
                   /\ cfg.Retries = MaxRetries
                   /\ attempt[t] = MaxRetries
                   /\ srcReqs[t].n = MaxRetries

\* C15 as stated: once the context is cancelled no worker starts an attempt
\* of downloadFromSource (the step that leaves the position before the
\* attempt), whether it stood before its first attempt or came out of the
\* retry delay.
C15_NoAttemptAfterCancel ==
  [][\A t \in Tasks : cancelled => ~(pc[t] = "open" /\ pc'[t] # "open")]_vars

\* C16 as stated: a worker that is in the retry delay under a cancelled
\* context leaves the delay by returning the cancellation.
C16_CancelEndsDelay ==
  [][\A t \in Tasks :
       (cancelled /\ pc[t] = "sleep" /\ pc'[t] # "sleep")
       => pc'[t] = "ret" /\ err'[t] = "context canceled"]_vars

\* C17: an attempt that fails with anything but the checksum mismatch
\* (building the source, creating the directory, the request, a read or
\* write of the stream, the rename) leaves the bytes of the staging file as
\* they are; nothing changes the staging file between two attempts; and
\* the request of a later attempt asks for the bytes from the staged size
\* on and keeps the staged bytes (no Range only when nothing is staged).
C17_FailureKeepsStaging ==
  [][\A t \in Tasks :
       /\ (/\ pc[t] \in {"open", "stream", "finalize"}
           /\ pc'[t] = "checkctx"
           /\ lastErr'[t] # "checksum mismatch")
          => /\ part'[t].data = part[t].data
             /\ part[t].kind = "file" => part'[t] = part[t]
       /\ pc[t] \in {"checkctx", "sleep"} => part'[t] = part[t]
       /\ (/\ pc[t] = "open"
           /\ attempt[t] >= 2
           /\ srcReqs'[t].n = srcReqs[t].n + 1)
          => /\ part'[t].data = part[t].data
             /\ offset'[t] = Len(part[t].data)
             /\ srcReqs'[t].range
                = (IF Len(part[t].data) > 0 THEN Len(part[t].data) ELSE NoRange)]_vars
C17_Witness ==
  \E t \in Tasks : /\ pc[t] = "stream"
                   /\ attempt[t] = 2
                   /\ lastErr[t] = "writing file"
                   /\ offset[t] \in 1..(Size - 1)
                   /\ srcReqs[t] = [n |-> 2, range |-> offset[t]]
                   /\ part[t] = File(Prefix(srcObj[t], offset[t]))

\* C18: after the checksum mismatch of an attempt there is no staging file
\* until the next attempt opens one; with attempts left and no cancellation
\* the loop goes on to the delay and the next attempt, with no result yet;
\* and that attempt starts with an empty staging file at offset 0 and its
\* request carries no Range.
C18_MismatchRetriesFromZero ==
  [][\A t \in Tasks :
       /\ (/\ lastErr'[t] = "checksum mismatch"
           /\ pc'[t] \in {"checkctx", "sleep", "open"})
          => part'[t] = Absent
       /\ (/\ pc[t] = "checkctx" /\ pc'[t] # "checkctx"
           /\ lastErr[t] = "checksum mismatch"
           /\ ~cancelled
           /\ attempt[t] < cfg.Retries)
          => /\ pc'[t] = "sleep"
             /\ attempt'[t] = attempt[t] + 1
             /\ err'[t] = "none"
       /\ (/\ pc[t] = "open"
           /\ lastErr[t] = "checksum mismatch"
           /\ srcReqs'[t].n = srcReqs[t].n + 1)
          => /\ part'[t] = File(<<>>)
             /\ offset'[t] = 0
             /\ srcReqs'[t].range = NoRange]_vars
C18_Witness ==
  \E t \in Tasks : /\ pc[t] = "stream"
                   /\ attempt[t] = 2
                   /\ lastErr[t] = "checksum mismatch"
                   /\ offset[t] = 0
                   /\ srcReqs[t] = [n |-> 2, range |-> NoRange]
                   /\ body[t] = srcObj[t]

\* C19 as stated: a task whose s3 alias is not in the configuration makes
\* one attempt at most and never waits the retry delay.
C19_AliasNotRetried ==
  \A t \in Tasks :
    NewSource(file[t].URL, cfg.Aliases) = "alias not found"
    => attempt[t] <= 1 /\ pc[t] # "sleep"

\* Worker t is inside uploadToCache.
InCachePut == {"putExists", "putUpload"}
\* The upload requests worker t has sent to the cache.
Puts(reqs) == {i \in DOMAIN reqs : reqs[i] = "put"}

\* C20: uploadToCache is entered only by the step of an attempt that
\* publishes the verified file, never from the existing-file check or the
\* cache fetch; it ends in the return of downloadFile with no error,
\* whether the store worked or not, and is not entered again; a task sends
\* at most one upload, and the cache entry is only ever written by that
\* upload, with the published file.
C20_StoreAfterPublish ==
  [][\A t \in Tasks :
       /\ (pc'[t] \in InCachePut /\ pc[t] \notin InCachePut)
          => /\ pc[t] = "finalize"
             /\ dest'[t] # dest[t]
             /\ Valid(t)'
       /\ pc[t] \in InCachePut
          => /\ pc'[t] \in InCachePut \cup {"ret"}
             /\ dest'[t] = dest[t]
             /\ pc'[t] = "ret" => err'[t] = "nil"
       /\ pc[t] \in Finished
          => pc'[t] \in Finished /\ cacheReqs'[t] = cacheReqs[t]
       /\ Cardinality(Puts(cacheReqs'[t])) <= 1
       /\ cacheReqs'[t] # cacheReqs[t] /\ Puts(cacheReqs'[t]) # Puts(cacheReqs[t])
          => pc[t] = "putUpload"
       /\ cacheObj'[CacheKey(t)] # cacheObj[CacheKey(t)]
          => pc[t] = "putUpload" /\ cacheObj'[CacheKey(t)] = dest[t] /\ Valid(t)]_vars
C20_Witness ==
  \E t \in Tasks : /\ pc[t] = "ret"
                   /\ err[t] = "nil"
                   /\ flaky[t]
                   /\ Puts(cacheReqs[t]) # {}
                   /\ cacheObj[CacheKey(t)] = Absent
                   /\ Valid(t)

\* C21: the cache fetch reports the object as found only at the end of its
\* copy, with the whole cache entry written to the destination and the
\* digest of those bytes equal to the expected digest; when the copied
\* bytes have another digest the fetch removes the destination it wrote
\* and the task goes on to the source with no error, as after a miss.
C21_CacheHitVerified ==
  [][\A t \in Tasks :
       /\ (pc[t] \in InCacheGet /\ pc'[t] = "ret")
          => /\ pc[t] = "cacheCopy" /\ body[t] = <<>>
             /\ dest[t] = File(cacheObj[CacheKey(t)].data)
             /\ Digest(cacheObj[CacheKey(t)].data) = file[t].SHA256
             /\ dest'[t] = dest[t]
             /\ err'[t] = "nil"
       /\ (/\ pc[t] = "cacheCopy" /\ body[t] = <<>> /\ pc'[t] # pc[t]
           /\ Digest(dest[t].data) # file[t].SHA256)
          => /\ dest'[t] = Absent
             /\ pc'[t] = "open"
             /\ err'[t] = "none"
             /\ lastErr'[t] = "nil"]_vars
C21_Witness ==
  \E t \in Tasks : /\ pc[t] = "open"
                   /\ ~flaky[t] /\ ~cancelled
                   /\ cacheObj[CacheKey(t)] = File(Bad)
                   /\ cacheReqs[t] = <<"head", "get">>
                   /\ srcReqs[t].n = 0
                   /\ dest[t] = Absent

\* The upload requests sent to the cache for the digest d, by any worker.
Uploads(d) ==
  UNION {{<<t, i>> : i \in Puts(cacheReqs[t])} :
           t \in {u \in Tasks : CacheKey(u) = d}}

\* What C22 says of one store: it asks the cache first, and when the entry
\* exists it sends no upload, writes nothing and ends without error.
StoreSkipsExisting ==
  \A t \in Tasks :
    (/\ pc[t] = "putExists" /\ pc'[t] # pc[t]
     /\ cacheObj[CacheKey(t)].kind = "file")
    => /\ pc'[t] = "ret" /\ err'[t] = "nil"
       /\ Puts(cacheReqs'[t]) = {}
       /\ cacheObj' = cacheObj

\* C22 as stated: a store that finds the entry uploads nothing and
\* succeeds, and however many stores of one digest there are, at most one
\* upload is sent for it.
C22_AtMostOneUpload ==
  /\ [][StoreSkipsExisting]_vars
  /\ [](\A t \in Tasks : Cardinality(Uploads(CacheKey(t))) <= 1)

\* C22: a store that finds the entry uploads nothing, writes nothing and
\* ends without error; an upload is sent only by a store whose existence
\* check found no entry, at most once per store; so a store that begins
\* after an upload for its digest has completed sends none.  (Stores of one
\* digest that overlap may each find no entry and each upload.)
C22_StoreIdempotent ==
  [][/\ StoreSkipsExisting
     /\ \A t \in Tasks :
          /\ (pc'[t] = "putUpload" /\ pc[t] # "putUpload")
             => /\ pc[t] = "putExists"
                /\ cacheObj[CacheKey(t)] = Absent
                /\ cacheReqs'[t] = Append(cacheReqs[t], "head")
          /\ Puts(cacheReqs'[t]) # Puts(cacheReqs[t])
             => pc[t] = "putUpload" /\ Puts(cacheReqs[t]) = {}
          /\ Cardinality(Puts(cacheReqs'[t])) <= 1]_vars
C22_Witness ==
  \E t, u \in Tasks :
    /\ t # u
    /\ CacheKey(t) = CacheKey(u)
    /\ ~cancelled
    /\ Puts(cacheReqs[t]) # {}
    /\ pc[u] \in Finished
    /\ srcReqs[u].n = 1
    /\ cacheReqs[u] = <<"head", "head">>
    /\ err[u] = "nil"

\* The errors Cache.Get can return.
CacheErrors ==
  {"checking cache", "downloading from cache", "checksum mismatch from cache"}

\* C23: when the existence check of the cache fetch fails, when its
\* download fails, or when the copy to the destination fails, the task
\* goes on to the first attempt of the source transfer with no error
\* recorded; no error of the cache is ever the result of a task or the
\* last error of its attempts.
C23_CacheErrorsSwallowed ==
  [][\A t \in Tasks :
       /\ (/\ pc[t] = "cacheExists" /\ pc'[t] # pc[t]
           /\ cacheObj[CacheKey(t)].kind = "file" /\ pc'[t] # "cacheOpen")
          => /\ pc'[t] = "open" /\ attempt'[t] = 1
             /\ err'[t] = "none" /\ lastErr'[t] = "nil"
             /\ dest'[t] = dest[t]
       /\ (pc[t] = "cacheOpen" /\ pc'[t] # pc[t] /\ pc'[t] # "cacheCopy")
          => /\ pc'[t] = "open" /\ attempt'[t] = 1
             /\ err'[t] = "none" /\ lastErr'[t] = "nil"
             /\ dest'[t] = dest[t]
       /\ (pc[t] = "cacheCopy" /\ pc'[t] # pc[t] /\ body[t] # <<>>)
          => /\ pc'[t] = "open" /\ attempt'[t] = 1
             /\ err'[t] = "none" /\ lastErr'[t] = "nil"
       /\ err'[t] \notin CacheErrors
       /\ lastErr'[t] \notin CacheErrors
       /\ pc[t] \in InCacheGet => err[t] = "none" /\ srcReqs[t].n = 0]_vars
C23_Witness ==
  \E t \in Tasks : /\ pc[t] = "ret"
                   /\ err[t] = "nil"
                   /\ ~cancelled
                   /\ cacheObj[CacheKey(t)] = File(Good)
                   /\ cacheReqs[t] # <<>>
                   /\ srcReqs[t].n >= 1
                   /\ dest[t] = File(srcObj[t])

\* C24: the step in which a task ends with an error cancels nothing and
\* changes nothing of any other task; in a run that was not cancelled and
\* has returned, every task whose own environment does not fail has
\* published its verified file without error, whatever became of the
\* others; and once a task has failed the run still returns, with the
\* result of every task.
C24_FailureIsolated ==
  /\ [][\A t \in Tasks :
          (err[t] = "none" /\ err'[t] \notin {"none", "nil"})
          => /\ cancelled' = cancelled
             /\ sem' = sem
             /\ \A u \in Tasks \ {t} :
                  /\ pc'[u] = pc[u] /\ err'[u] = err[u]
                  /\ attempt'[u] = attempt[u] /\ body'[u] = body[u]
                  /\ dest'[u] = dest[u] /\ part'[u] = part[u]]_vars
  /\ [](returned /\ ~cancelled
        => \A u \in Tasks : /\ results[u] # "unset"
                            /\ ~flaky[u] => results[u] = "nil" /\ Valid(u))
  /\ ((\E t \in Tasks : err[t] = "all attempts") ~> returned)
C24_Witness ==
  /\ returned
  /\ ~cancelled
  /\ \E t \in Tasks :
       /\ results[t] = "all attempts"
       /\ \A u \in Tasks \ {t} : results[u] = "nil" /\ Valid(u)

\* C25: a step that writes the cache entry under the digest d is the upload
\* of a worker whose expected digest is d, and the entry it writes is that
\* worker's destination file, the digest of whose bytes is d.
C25_CacheContentAddressed ==
  [][\A d \in DOMAIN cacheObj :
       cacheObj'[d] # cacheObj[d]
       => /\ cacheObj'[d].kind = "file"
          /\ Digest(cacheObj'[d].data) = d
          /\ \E t \in Tasks : /\ pc[t] = "putUpload"
                              /\ CacheKey(t) = d
                              /\ cacheObj'[d] = dest[t]]_vars
C25_Witness ==
  \E t \in Tasks : /\ Puts(cacheReqs[t]) # {}
                   /\ cacheObj[CacheKey(t)] = dest[t]
                   /\ cacheObj[CacheKey(t)] = File(Good)
                   /\ srcReqs[t].n >= 1

\* C26: the delays a worker sleeps between its attempts grow: the wait
\* before attempt k+2 is longer than the wait before attempt k+1.
C26_ExponentialBackoff ==
  \A t \in Tasks :
    \A k \in 1..(Len(slept[t]) - 1) : slept[t][k + 1] > slept[t][k]

\* C27: an attempt whose request is answered with a status other than 200
\* and 206 fails with a download error: it reads no byte of the response,
\* the staging file keeps the bytes it had, and the destination is not
\* touched; an attempt only streams the body of a response of status 200
\* or 206.
C27_BadStatusFailsAttempt ==
  [][\A t \in Tasks :
       (pc[t] = "open" /\ srcReqs'[t].n = srcReqs[t].n + 1)
       => /\ (/\ ~flaky[t]
              /\ ~StatusAccepted(
                    Respond(srcObj[t], srcReqs'[t].range, "honest").status))
             => pc'[t] = "checkctx"
          /\ pc'[t] = "stream"
             => \E mode \in {"honest", "ignoreRange"} :
                  LET r == Respond(srcObj[t], srcReqs'[t].range, mode) IN
                  StatusAccepted(r.status) /\ body'[t] = r.body
          /\ pc'[t] = "checkctx"
             => /\ lastErr'[t] = "downloading"
                /\ body'[t] = <<>>
                /\ part'[t].data = part[t].data
                /\ dest'[t] = dest[t]
                /\ err'[t] = "none"]_vars
C27_Witness ==
  \E t \in Tasks : /\ pc[t] = "checkctx"
                   /\ lastErr[t] = "downloading"
                   /\ ~flaky[t] /\ ~cancelled
                   /\ srcReqs[t] = [n |-> 1, range |-> Size]
                   /\ part[t] = File(Good)
                   /\ dest[t] = Absent

\* The paths merged so far.
Merged == 1..loadIdx
\* The last of the paths in S.
LastPath(S) == CHOOSE i \in S : \A j \in S : j <= i

\* C28: the merged configuration has exactly the alias names of the files
\* merged so far, and under each name the whole Alias of the last file that
\* defines it: a later alias of the same name replaces the earlier one in
\* every field, an alias only an earlier file defines stays, an alias only a
\* later file defines is added.
C28_AliasesLastWins ==
  /\ DOMAIN baseConfig.Aliases = UNION {DOMAIN paths[i].Aliases : i \in Merged}
  /\ \A n \in DOMAIN baseConfig.Aliases :
       LET Defines == {i \in Merged : n \in DOMAIN paths[i].Aliases} IN
       baseConfig.Aliases[n] = paths[LastPath(Defines)].Aliases[n]
C28_Witness ==
  /\ loadIdx = 2
  /\ paths[1].Aliases = [n \in {"a"} |-> AliasOne]
  /\ DOMAIN paths[2].Aliases = {"a", "b"}
  /\ paths[2].Aliases["a"] = AliasTwo
  /\ baseConfig.Aliases["a"] = AliasTwo
  /\ baseConfig.Aliases["b"] = AliasOne

\* The settings fields mergeConfigs merges.
MergedSettings == {"Parallel", "Retries", "RetryDelay"}

RECURSIVE AllFiles(_)
AllFiles(n) == IF n = 0 THEN <<>> ELSE AllFiles(n - 1) \o paths[n].Files

\* C30: the file list of the merged configuration is the file lists of the
\* files merged so far, one after the other in the order the files were
\* given: every entry is there, as often as it is listed, in its place.
C30_FilesConcatenated ==
  baseConfig.Files = AllFiles(loadIdx)
C30_Witness ==
  /\ loadIdx = 2
  /\ paths[1].Files = <<EntryOne>>
  /\ paths[2].Files = <<EntryOne>>
  /\ baseConfig.Files = <<EntryOne, EntryOne>>
  /\ loadPc = "ok"

\* The default of each setting applyDefaults fills in.
Defaults ==
  [Parallel |-> defaultParallel, Retries |-> defaultRetries,
   RetryDelay |-> defaultRetryDelay]

\* C31: once LoadMultiple has applied the defaults, each of parallel,
\* retries and retry_delay is the default when the merged files left it
\* absent, zero or negative, and the merged value otherwise; so a
\* configuration that LoadMultiple returns has parallel >= 1, retries >= 1
\* and a positive retry delay.
C31_DefaultsApplied ==
  /\ loadPc \in {"validate", "ok", "error"}
     => \A f \in MergedSettings :
          LET Sets == {i \in Merged : i = 1 \/ paths[i].Settings[f] > 0}
              v == paths[LastPath(Sets)].Settings[f]
          IN baseConfig.Settings[f] = IF v <= 0 THEN Defaults[f] ELSE v
  /\ loadPc = "ok"
     => /\ baseConfig.Settings.Parallel >= 1
        /\ baseConfig.Settings.Retries >= 1
        /\ baseConfig.Settings.RetryDelay > 0
C31_Witness ==
  /\ loadPc = "ok"
  /\ Len(paths) = 1
  /\ paths[1].Settings.Parallel = 0
  /\ paths[1].Settings.Retries < 0
  /\ paths[1].Settings.RetryDelay = 0
  /\ baseConfig.Settings.Parallel = defaultParallel
  /\ baseConfig.Settings.Retries = defaultRetries
  /\ baseConfig.Settings.RetryDelay = defaultRetryDelay

\* Worker t is inside downloadWithRetry, before uploadToCache.
InTransfer == {"open", "stream", "finalize", "checkctx", "sleep"}

\* C32: a step of the transfer changes the destination only as the rename
\* of finalizeDownload: the destination becomes the staging file, whole,
\* the digest of all its bytes is the expected digest and the staging path
\* is gone; a staging file whose bytes as a whole have another digest is
\* never renamed, whatever the bytes the attempt appended.
C32_PublishWholeFileVerified ==
  [][\A t \in Tasks :
       /\ (pc[t] \in InTransfer /\ dest'[t] # dest[t])
          => /\ pc[t] = "finalize"
             /\ part[t].kind = "file"
             /\ Digest(part[t].data) = file[t].SHA256
             /\ dest'[t] = part[t]
             /\ part'[t] = Absent
       /\ (/\ pc[t] = "finalize" /\ pc'[t] # pc[t]
           /\ Digest(part[t].data) # file[t].SHA256)
          => /\ dest'[t] = dest[t]
             /\ pc'[t] = "checkctx"]_vars
C32_Witness ==
  \E t \in Tasks : /\ pc[t] = "checkctx"
                   /\ lastErr[t] = "checksum mismatch"
                   /\ ~flaky[t] /\ ~cancelled
                   /\ srcObj[t] = Good
                   /\ srcReqs[t].n = 1
                   /\ srcReqs[t].range > 0
                   /\ dest[t] = Absent
                   /\ part[t] = Absent

\* The download requests worker t has sent to the cache.
Gets(reqs) == {i \in DOMAIN reqs : reqs[i] = "get"}

\* C33: a worker enters the existing-file check only from the semaphore,
\* the cache fetch only from the existing-file check, and the transfer only
\* from the existing-file check or the cache fetch; once in the cache fetch
\* it does not return to the check, and once in the transfer it returns to
\* neither, whatever the number of attempts; it sends the cache at most one
\* download request.
C33_PipelineOrder ==
  [][\A t \in Tasks :
       /\ (pc'[t] = "check" /\ pc[t] # "check") => pc[t] = "idle"
       /\ pc'[t] = "idle" => pc[t] = "idle"
       /\ (pc[t] = "idle" /\ pc'[t] # "idle") => pc'[t] = "check"
       /\ (pc'[t] \in InCacheGet /\ pc[t] \notin InCacheGet) => pc[t] = "check"
       /\ (pc'[t] \in InTransfer /\ pc[t] \notin InTransfer)
          => /\ pc[t] \in {"check"} \cup InCacheGet
             /\ pc'[t] = "open" /\ attempt'[t] = 1
       /\ pc[t] \in InCacheGet => pc'[t] \in InCacheGet \cup {"open", "ret"}
       /\ pc[t] \in InTransfer
          => pc'[t] \in InTransfer \cup InCachePut \cup {"ret"}
       /\ pc[t] \in InCachePut \cup Finished
          => pc'[t] \in InCachePut \cup Finished
       /\ Cardinality(Gets(cacheReqs'[t])) <= 1
       /\ Gets(cacheReqs'[t]) # Gets(cacheReqs[t]) => pc[t] = "cacheOpen"]_vars
C33_Witness ==
  \E t \in Tasks : /\ pc[t] = "open"
                   /\ attempt[t] = 2
                   /\ cacheObj[CacheKey(t)] = File(Bad)
                   /\ cacheReqs[t] = <<"head", "get">>
                   /\ srcReqs[t].n = 1

\* The steps of a scheduler run other than those of Cache.Put and the
\* signal.
SchedProgress ==
  \/ \E t \in Tasks : Acquire(t)
  \/ \E t \in Tasks : CheckExisting(t)
  \/ \E t \in Tasks : CacheExists(t)
  \/ \E t \in Tasks : OpenAttempt(t)
  \/ \E t \in Tasks : StreamChunk(t)
  \/ \E t \in Tasks : FinalizeDownload(t)
  \/ \E t \in Tasks : CheckCtx(t)
  \/ \E t \in Tasks : Send(t)
  \/ \E t \in Tasks : Release(t)
  \/ CloseCh
  \/ Collect
  \/ Return
  \/ ProgressWait

\* A scheduler run in which the cache may be slow or hang: every step that
\* is possible is taken in the end, except the requests of Cache.Put, which
\* may never be answered.
StoreHangSpec == SchedSpec /\ WF_vars(SchedProgress)

\* C34: a worker that has published its file and is storing it in the
\* cache sends its result and releases its semaphore slot whether or not
\* the store ever completes.
C34_StoreAsynchronous ==
  \A t \in 1..MaxTasks :
    (pc[t] \in InCachePut) ~> (pc[t] = "exit" /\ results[t] # "unset")

\* C35: a task that has ended, in a run without failures of the
\* environment and without a signal, with a source that follows range
\* semantics and holds the expected object, and whose staging path holds
\* the complete object of the expected digest, has its file published at
\* the destination.
C35_CompleteStagingPublished ==
  \A t \in Tasks :
    (/\ pc[t] \in Finished
     /\ ~flaky[t] /\ ~cancelled
     /\ NewSource(file[t].URL, cfg.Aliases) = "nil"
     /\ srcObj[t] = Good
     /\ dest[t].kind # "dir"
     /\ part[t] = File(Good)
     /\ Digest(Good) = file[t].SHA256)
    => Valid(t)

\* C36: with a source that answers a ranged request with the whole object
\* and status 200, the staging file that holds the staged bytes followed by
\* the whole object is removed and not renamed, and the destination never
\* holds anything but what it held before the run or the expected object;
\* a task that ends, without a signal and with retries >= 2, ends without
\* error and published with the expected digest; and the run returns.
C36_IgnoredRangeRecovered ==
  /\ [][\A t \in Tasks :
          (/\ pc[t] = "finalize" /\ pc'[t] # pc[t]
           /\ Len(part[t].data) > Len(srcObj[t]))
          => /\ dest'[t] = dest[t]
             /\ part'[t] = Absent
             /\ pc'[t] = "checkctx"]_vars
  /\ [](\A t \in Tasks :
          /\ dest[t] \in {Absent, File(Old), File(Good)}
          /\ (pc[t] \in Finished /\ ~cancelled /\ cfg.Retries >= 2)
             => err[t] = "nil" /\ Valid(t))
  /\ <>returned
C36_Witness ==
  \E t \in Tasks : /\ pc[t] = "ret"
                   /\ err[t] = "nil"
                   /\ ~cancelled
                   /\ srcMode[t] = "ignoreRange"
                   /\ srcReqs[t] = [n |-> 2, range |-> NoRange]
                   /\ dest[t] = File(Good)
                   /\ part[t] = Absent

\* The one-task run in which every step that stays possible is taken.
FairSpec == Spec /\ WF_vars(Next)

\* C37: a destination file that exists before the run with a digest other
\* than the expected one is still there, unchanged, whenever the task has
\* ended with an error (a failure or a cancellation), cache enabled or not.
C37_OldDestinationKept ==
  (dest[1] = File(Old))
    => [](pc[1] \in Finished /\ err[1] # "nil" => dest[1] = File(Old))

\* C38: for every number of tasks and every limit, with every pipeline step
\* terminating, Download terminates: every worker gets through the gate,
\* sends its one result on a channel that never holds more than one result
\* per task, gives its slot back after its pipeline ended, and Download
\* returns with no slot held.
C38_DownloadTerminates ==
  /\ [](/\ Len(resultCh) <= Cardinality(Tasks)
        /\ \A t \in Tasks :
             Cardinality({i \in 1..Len(resultCh) : resultCh[i].index = t}) <= 1
        /\ (waited => sem = 0 /\ \A t \in Tasks : pc[t] = "exit"))
  /\ [][\A t \in Tasks : pc'[t] = "exit" /\ pc[t] # "exit"
          => pc[t] = "sent" /\ sem' = sem - 1]_vars
  /\ \A t \in 1..MaxTasks : <>(t \in Tasks => pc[t] # "idle")
  /\ <>waited

\* C39: when the destination is a directory or a file that cannot be read,
\* the first step of the pipeline ends the task with the error of the
\* existing-file check; no request was sent before it, none is sent after
\* it, no attempt is started, no sleep taken, and destination and staging
\* file stay as they were.
C39_CheckErrorEndsTask ==
  [][\A t \in Tasks :
       /\ (/\ pc[t] = "check" /\ pc'[t] # "check"
           /\ dest[t].kind \in {"dir", "unreadable"})
          => /\ pc'[t] = "ret"
             /\ err'[t] = "checking existing file"
             /\ srcReqs'[t].n = 0 /\ cacheReqs'[t] = <<>>
             /\ attempt'[t] = 0 /\ slept'[t] = <<>>
             /\ dest'[t] = dest[t] /\ part'[t] = part[t]
       /\ (pc[t] \in Finished /\ err[t] = "checking existing file")
          => /\ pc'[t] \in Finished
             /\ err'[t] = err[t]
             /\ srcReqs'[t] = srcReqs[t] /\ cacheReqs'[t] = cacheReqs[t]
             /\ attempt'[t] = attempt[t] /\ slept'[t] = slept[t]
             /\ dest'[t] = dest[t] /\ part'[t] = part[t]]_vars
C39_Witness ==
  \E t \in Tasks : /\ returned
                   /\ results[t] = "checking existing file"
                   /\ dest[t] = Unreadable(Good)
                   /\ part[t] = Absent
                   /\ cfg.CacheEnabled /\ cfg.Retries > 1
                   /\ srcReqs[t].n = 0 /\ cacheReqs[t] = <<>>
                   /\ attempt[t] = 0

\* C40: the step on which the cache fetch returns with a verified file at
\* the destination ends the task without error, with that file still at the
\* destination, with no source request sent, no attempt started and no
\* request to the cache beyond the lookup and the fetch; and a task that
\* ended this way sends no request and starts no attempt afterwards.
C40_HitShortCircuits ==
  [][\A t \in Tasks :
       /\ (/\ pc[t] = "cacheCopy" /\ pc'[t] # "cacheCopy"
           /\ Valid(t) /\ dest'[t] = dest[t])
          => /\ pc'[t] = "ret"
             /\ err'[t] = "nil"
             /\ srcReqs'[t].n = 0
             /\ attempt'[t] = 0
             /\ cacheReqs'[t] = <<"head", "get">>
       /\ (/\ pc[t] \in Finished /\ err[t] = "nil"
           /\ attempt[t] = 0 /\ cacheReqs[t] # <<>>)
          => /\ pc'[t] \in Finished
             /\ Valid(t)'
             /\ err'[t] = "nil"
             /\ srcReqs'[t].n = 0
             /\ attempt'[t] = 0
             /\ cacheReqs'[t] = <<"head", "get">>]_vars
C40_Witness ==
  \E t \in Tasks : /\ waited
                   /\ results[t] = "nil"
                   /\ cacheReqs[t] = <<"head", "get">>
                   /\ srcReqs[t].n = 0
                   /\ attempt[t] = 0
                   /\ part[t] = Absent
                   /\ dest[t] = File(cacheObj[CacheKey(t)].data)
                   /\ Valid(t)

====
